---- MODULE Spec2Model ----
(***************************************************************************)
(* Model of the meeting voice agent's integration layer:                   *)
(*   services/meeting_voice_agent/main.py      tracker, dispatcher, main   *)
(*   services/meeting_voice_agent/pcc_tools.py client, tool callbacks      *)
(*                                                                         *)
(* Python values are tagged one-field records: [none], [str], [msg],       *)
(* [lines], [int], [list], [dict].  A [str] holds a sequence of            *)
(* characters; a [msg] is a literal of the source (non-blank, no           *)
(* surrounding whitespace); [lines] is "\n".join of a non-empty list whose *)
(* first and last lines are non-blank.                                     *)
(***************************************************************************)
EXTENDS Integers, Sequences, FiniteSets, TLC

VARIABLES
    tracker,    \* MeetingSummaryTracker's fields
    pc,         \* position of each send_if_needed task
    frame,      \* locals of each send_if_needed task: params, result
    lock,       \* holder of MeetingSummaryDispatcher._lock, or NoTask
    waiters,    \* tasks suspended in lock.acquire(), in FIFO order
    phase,      \* position of main/run_pipeline
    call,       \* the language model's latest tool call: name, params, position,
                \* locals, result, and the requests it issued and their answers
    ncalls,     \* number of tool calls the language model has made
    posted,     \* number of send_meeting_summary calls that returned a non-error result
    closes      \* number of times main has invoked pcc.close()

vars == <<tracker, pc, frame, lock, waiters, phase, call, ncalls, posted, closes>>

-----------------------------------------------------------------------------
(* Bounds *)

MaxDisconnects == 2     \* disconnect callbacks per session
MaxCalls == 2           \* tool calls by the language model per session
MaxObserved == 7        \* tool results observed by the tracker alone
MaxNoteCalls == 1       \* notes saved when the stored text is examined
MaxOver == 3            \* characters of a note text beyond the limit

-----------------------------------------------------------------------------
(* Python values *)

NoneV == [none |-> TRUE]
Str(s) == [str |-> s]
Msg(m) == [msg |-> m]
Lines(l) == [lines |-> l]
IntV(n) == [int |-> n]
ListV(l) == [list |-> l]
Dict(f) == [dict |-> f]

IsNone(v) == "none" \in DOMAIN v
IsStr(v) == DOMAIN v \subseteq {"str", "msg", "lines"}
IsMapping(v) == "dict" \in DOMAIN v

EmptyDict == Dict([k \in {} |-> NoneV])

\* Python truthiness of a parameter object, an Optional[str] or a list
Truthy(v) ==
    CASE "none" \in DOMAIN v -> FALSE
      [] "str" \in DOMAIN v -> v.str # <<>>
      [] "dict" \in DOMAIN v -> DOMAIN v.dict # {}
      [] "list" \in DOMAIN v -> v.list # <<>>
      [] "int" \in DOMAIN v -> v.int # 0
      [] OTHER -> TRUE

Whitespace == {" ", "\n", "\t"}

RECURSIVE rstrip(_)
rstrip(s) ==
    IF s = <<>> THEN s
    ELSE IF s[Len(s)] \in Whitespace THEN rstrip(SubSeq(s, 1, Len(s) - 1))
    ELSE s

RECURSIVE lstrip(_)
lstrip(s) ==
    IF s = <<>> THEN s
    ELSE IF Head(s) \in Whitespace THEN lstrip(Tail(s))
    ELSE s

strip(s) == lstrip(rstrip(s))

\* len() of a string value whose characters are modelled
StrLen(v) == Len(v.str)

_coerce_str(value) ==
    CASE "str" \in DOMAIN value ->
            LET trimmed == strip(value.str)
            IN  IF trimmed # <<>> THEN Str(trimmed) ELSE NoneV
      [] "msg" \in DOMAIN value -> value
      [] "lines" \in DOMAIN value -> value
      [] OTHER -> NoneV

RECURSIVE _get_param(_, _)
_get_param(params, keys) ==
    IF ~Truthy(params) \/ keys = <<>> THEN NoneV
    ELSE IF Head(keys) \in DOMAIN params.dict THEN params.dict[Head(keys)]
    ELSE _get_param(params, Tail(keys))

\* dict.get(key)
DictGet(d, key) == IF key \in DOMAIN d.dict THEN d.dict[key] ELSE NoneV

\* kwargs are never used by the callers modelled here: merged is params
_merge_tool_params(params, kwargs) ==
    IF IsNone(params) THEN (IF Truthy(kwargs) THEN kwargs ELSE NoneV)
    ELSE IF ~Truthy(kwargs) THEN params
    ELSE Dict([k \in DOMAIN params.dict \cup DOMAIN kwargs.dict |->
                  IF k \in DOMAIN kwargs.dict THEN kwargs.dict[k] ELSE params.dict[k]])

Ellipsis == <<".", ".", ".">>

Max(a, b) == IF a >= b THEN a ELSE b

\* Mutant: the ellipsis is appended to `limit` characters
_truncate_text_long(text, limit) ==
    IF "str" \notin DOMAIN text THEN text
    ELSE IF Len(text.str) <= limit THEN text
    ELSE Str(rstrip(SubSeq(text.str, 1, limit)) \o Ellipsis)

_truncate_text(text, limit) ==
    IF "str" \notin DOMAIN text THEN text
    ELSE IF Len(text.str) <= limit THEN text
    ELSE LET clipped == rstrip(SubSeq(text.str, 1, Max(0, limit - 3)))
         IN  Str(clipped \o Ellipsis)

\* Mutant: no result counts as an error
_result_is_error_never(res) == FALSE

\* Mutant: whatever a mapping holds under "error" makes it an error
_result_is_error_any_value(res) == IsMapping(res) /\ "error" \in DOMAIN res.dict

_result_is_error(res) ==
    IF IsMapping(res)
    THEN LET error == DictGet(res, "error")
         IN  /\ IsStr(error)
             /\ ("str" \in DOMAIN error => strip(error.str) # <<>>)
    ELSE FALSE

ErrorResult(message) == Dict([k \in {"error"} |-> message])

-----------------------------------------------------------------------------
(* MeetingSummaryTracker *)

max_notes == 5
max_action_items == 5
NoteLimit == 140

\* MeetingSummaryTracker.__init__
NewTracker(defaults) ==
    [ project_id         |-> defaults.project_id,
      meeting_id         |-> defaults.meeting_id,
      meeting_title      |-> defaults.meeting_title,
      meeting_started_at |-> defaults.meeting_started_at,
      notes              |-> <<>>,
      action_items       |-> <<>>,
      summary_sent       |-> FALSE,
      summary_blocked    |-> FALSE ]

\* Mutant: the dispatcher's check never sees the flag
summary_sent_never(tr) == FALSE

summary_sent(tr) == tr.summary_sent

\* Mutant: the latest non-empty value wins
_assign_once_overwrite(tr, field_name, value) ==
    IF ~Truthy(value) THEN tr ELSE [tr EXCEPT ![field_name] = value]

_assign_once(tr, field_name, value) ==
    IF ~Truthy(value) THEN tr
    ELSE IF IsNone(tr[field_name]) THEN [tr EXCEPT ![field_name] = value]
    ELSE tr

update_from_params(tr, params) ==
    IF ~Truthy(params) THEN tr
    ELSE LET t1 == _assign_once(tr, "project_id",
                       _coerce_str(_get_param(params, <<"project_id", "project">>)))
             t2 == _assign_once(t1, "meeting_id",
                       _coerce_str(_get_param(params, <<"meeting_id", "meeting">>)))
             t3 == _assign_once(t2, "meeting_title",
                       _coerce_str(_get_param(params,
                           <<"meeting_title", "meeting_name", "title">>)))
         IN  _assign_once(t3, "meeting_started_at",
                 _coerce_str(_get_param(params,
                     <<"meeting_started_at", "meeting_start">>)))

\* Mutant: a full list lets one more note in
_add_note_off_by_one(tr, note) ==
    IF Len(tr.notes) > max_notes THEN tr
    ELSE [tr EXCEPT !.notes = Append(@, _truncate_text(note, NoteLimit))]

_add_note(tr, note) ==
    IF Len(tr.notes) >= max_notes THEN tr
    ELSE [tr EXCEPT !.notes = Append(@, _truncate_text(note, NoteLimit))]

_add_action_item(tr, title) ==
    IF Len(tr.action_items) >= max_action_items THEN tr
    ELSE [tr EXCEPT !.action_items = Append(@, _truncate_text(title, NoteLimit))]

\* Mutant: a sent summary is not recorded
record_tool_result_no_sent(tr, name, params, res) ==
    IF _result_is_error(res) THEN tr
    ELSE IF name = "save_meeting_notes"
    THEN LET note == _coerce_str(_get_param(params, <<"note", "text">>))
         IN  IF Truthy(note) THEN _add_note(tr, note) ELSE tr
    ELSE IF name = "create_action_item"
    THEN LET title == _coerce_str(_get_param(params, <<"title", "summary">>))
         IN  IF Truthy(title) THEN _add_action_item(tr, title) ELSE tr
    ELSE tr

\* Mutant: a sent summary is recorded whatever the result
record_tool_result_sent_on_error(tr, name, params, res) ==
    IF name = "send_meeting_summary" THEN [tr EXCEPT !.summary_sent = TRUE]
    ELSE tr

record_tool_result(tr, name, params, res) ==
    IF _result_is_error(res) THEN tr
    ELSE IF name = "save_meeting_notes"
    THEN LET note == _coerce_str(_get_param(params, <<"note", "text">>))
         IN  IF Truthy(note) THEN _add_note(tr, note) ELSE tr
    ELSE IF name = "create_action_item"
    THEN LET title == _coerce_str(_get_param(params, <<"title", "summary">>))
         IN  IF Truthy(title) THEN _add_action_item(tr, title) ELSE tr
    ELSE IF name = "send_meeting_summary"
    THEN [tr EXCEPT !.summary_sent = TRUE]
    ELSE tr

_build_summary_text(tr) ==
    IF tr.notes = <<>> /\ tr.action_items = <<>>
    THEN Msg("No notes or action items were captured during the meeting.")
    ELSE IF tr.notes # <<>>
    THEN Lines(<<Msg("Notes captured:")>> \o
               [i \in 1..Len(tr.notes) |-> [bullet |-> tr.notes[i]]])
    ELSE Lines(<<Msg("No notes were captured; see action items for follow-ups.")>>)

\* The tracker after build_summary_params: the one-shot warning flag
build_summary_params_tracker(tr) ==
    IF ~Truthy(tr.meeting_id) \/ ~Truthy(tr.project_id)
    THEN [tr EXCEPT !.summary_blocked = TRUE]
    ELSE tr

\* Mutant: no summary parameters when nothing was captured
build_summary_params_needs_notes(tr, ended_at) ==
    IF ~Truthy(tr.meeting_id) \/ ~Truthy(tr.project_id) \/ tr.notes = <<>> THEN NoneV
    ELSE Dict([k \in {"project_id", "meeting_id"} |->
                 IF k = "project_id" THEN tr.project_id ELSE tr.meeting_id])

\* The value build_summary_params returns
build_summary_params(tr, ended_at) ==
    IF ~Truthy(tr.meeting_id) \/ ~Truthy(tr.project_id) THEN NoneV
    ELSE LET keys == {"project_id", "meeting_id", "summary", "meeting_ended_at",
                      "to_scope", "to_project_id"}
                     \cup (IF Truthy(tr.meeting_title) THEN {"meeting_title"} ELSE {})
                     \cup (IF Truthy(tr.meeting_started_at)
                           THEN {"meeting_started_at"} ELSE {})
                     \cup (IF tr.action_items # <<>> THEN {"action_items"} ELSE {})
         IN  Dict([k \in keys |->
                CASE k = "project_id" -> tr.project_id
                  [] k = "meeting_id" -> tr.meeting_id
                  [] k = "summary" -> _build_summary_text(tr)
                  [] k = "meeting_ended_at" -> ended_at
                  [] k = "to_scope" -> Msg("project")
                  [] k = "to_project_id" -> tr.project_id
                  [] k = "meeting_title" -> tr.meeting_title
                  [] k = "meeting_started_at" -> tr.meeting_started_at
                  [] k = "action_items" -> ListV(tr.action_items)])

\* datetime.now(timezone.utc).isoformat(): the clock is not modelled
_iso_now == Msg("<now>")

-----------------------------------------------------------------------------
(* PccClient *)

\* What a coroutine does next: return a value, raise, or await a request
Ret(v) == [ret |-> v]
Raise(e) == [raise |-> e]
Await(req, stage, locals) == [await |-> req, stage |-> stage, locals |-> locals]

IsRet(r) == "ret" \in DOMAIN r
IsRaise(r) == "raise" \in DOMAIN r
IsAwait(r) == "await" \in DOMAIN r

PccClientError(message, status_code) ==
    [exc |-> "PccClientError", message |-> message, status_code |-> status_code]
RuntimeError(message) ==
    [exc |-> "RuntimeError", message |-> message, status_code |-> NoneV]
CancelledError ==
    [exc |-> "CancelledError", message |-> Msg("cancelled"), status_code |-> NoneV]

\* The answers of the network to one request
Timeout == [kind |-> "timeout", status |-> 0, body |-> NoneV]
RequestError == [kind |-> "request_error", status |-> 0, body |-> NoneV]
Response(status, body) == [kind |-> "response", status |-> status, body |-> body]
InvalidJson == [invalid |-> TRUE]

Request(method, endpoint, project_id, work_order_id, json) ==
    [method |-> method, endpoint |-> endpoint, project_id |-> project_id,
     work_order_id |-> work_order_id, json |-> json]

\* Mutant: a response without a JSON body is returned as None
_request_json_lenient(outcome) ==
    IF outcome.kind = "timeout"
    THEN Raise(PccClientError(Msg("PCC request timed out."), NoneV))
    ELSE IF outcome.kind = "request_error"
    THEN Raise(PccClientError(Msg("PCC request failed: <exc>"), NoneV))
    ELSE IF outcome.body = InvalidJson THEN Ret(NoneV)
    ELSE IF outcome.status < 200 \/ outcome.status >= 300
    THEN Raise(PccClientError(Msg("PCC request failed with status <status_code>."),
                              IntV(outcome.status)))
    ELSE Ret(outcome.body)

\* PccClient._request_json after self._client.request(...) has answered
_request_json(outcome) ==
    IF outcome.kind = "timeout"
    THEN Raise(PccClientError(Msg("PCC request timed out."), NoneV))
    ELSE IF outcome.kind = "request_error"
    THEN Raise(PccClientError(Msg("PCC request failed: <exc>"), NoneV))
    ELSE IF outcome.status < 200 \/ outcome.status >= 300
    THEN LET payload == IF outcome.body = InvalidJson THEN NoneV ELSE outcome.body
             error == IF IsMapping(payload) THEN DictGet(payload, "error") ELSE NoneV
             message ==
                 IF IsMapping(payload) /\ IsStr(error) /\ Truthy(_coerce_str(error))
                 THEN _coerce_str(error)
                 ELSE Msg("PCC request failed with status <status_code>.")
         IN  Raise(PccClientError(message, IntV(outcome.status)))
    ELSE IF outcome.body = InvalidJson
    THEN Raise(PccClientError(Msg("PCC response was not valid JSON."), NoneV))
    ELSE Ret(outcome.body)

\* Mutant: only None and the empty string are rejected
BlankArg_untrimmed(v) == ~Truthy(v)

\* `not s or not s.strip()` for an argument that is a str or None
BlankArg(v) == ~Truthy(v) \/ ~Truthy(_coerce_str(v))

\* PccClient.send_communication up to its request.  args: project_id, intent,
\* summary, to_scope, to_project_id.  body, type, run_id, shift_id and payload
\* are copied into the request when present and decide nothing: left out.
send_communication(args) ==
    IF BlankArg(args.project_id)
    THEN Raise(PccClientError(Msg("Project id is required."), NoneV))
    ELSE IF BlankArg(args.intent)
    THEN Raise(PccClientError(Msg("Communication intent is required."), NoneV))
    ELSE IF BlankArg(args.summary)
    THEN Raise(PccClientError(Msg("Communication summary is required."), NoneV))
    ELSE LET keys == {"intent", "summary"}
                     \cup (IF IsNone(args.to_scope) THEN {} ELSE {"to_scope"})
                     \cup (IF IsNone(args.to_project_id) THEN {} ELSE {"to_project_id"})
             data == Dict([k \in keys |->
                        CASE k = "intent" -> _coerce_str(args.intent)
                          [] k = "summary" -> _coerce_str(args.summary)
                          [] k = "to_scope" -> args.to_scope
                          [] k = "to_project_id" -> args.to_project_id])
         IN  Await(Request("POST", "communications", args.project_id, NoneV, data),
                   "send_communication", NoneV)

CommArgs(project_id, intent, summary, to_scope, to_project_id) ==
    [project_id |-> project_id, intent |-> intent, summary |-> summary,
     to_scope |-> to_scope, to_project_id |-> to_project_id]

\* str.lower() over the letters the inputs use
ToLower(c) ==
    CASE c = "A" -> "a" [] c = "B" -> "b" [] c = "M" -> "m" [] c = "P" -> "p"
      [] OTHER -> c

_normalize(value) == [i \in 1..Len(strip(value)) |-> ToLower(strip(value)[i])]

\* `a in b` for two strings
Contains(b, a) ==
    \E i \in 1..(Len(b) - Len(a) + 1) : SubSeq(b, i, i + Len(a) - 1) = a

\* The characters of a str value (`_coerce_str(v) or ""`)
CharsOrEmpty(v) ==
    LET s == _coerce_str(v) IN IF "str" \in DOMAIN s THEN s.str ELSE <<>>

\* Mutant: the first project that matches, exactly or not, is returned
_select_project_summary_first_hit(projects, query) ==
    LET normalized == _normalize(query.str)
        hits == {i \in 1..Len(projects) :
                    /\ IsMapping(projects[i])
                    /\ \/ Contains(_normalize(CharsOrEmpty(DictGet(projects[i], "id"))),
                                   normalized)
                       \/ Contains(_normalize(CharsOrEmpty(DictGet(projects[i], "name"))),
                                   normalized)}
    IN  IF normalized = <<>> \/ hits = {} THEN NoneV
        ELSE projects[CHOOSE i \in hits : \A j \in hits : i <= j]

\* _select_project_summary: the first exact match on id or name, else the
\* first project whose id or name contains the query, else None
_select_project_summary(projects, query) ==
    LET normalized == _normalize(query.str)
        IdOf(i) == _normalize(CharsOrEmpty(DictGet(projects[i], "id")))
        NameOf(i) == _normalize(CharsOrEmpty(DictGet(projects[i], "name")))
        Mappings == {i \in 1..Len(projects) : IsMapping(projects[i])}
        exact == {i \in Mappings : IdOf(i) = normalized \/ NameOf(i) = normalized}
        partial == {i \in Mappings : Contains(IdOf(i), normalized)
                                        \/ Contains(NameOf(i), normalized)}
        First(S) == CHOOSE i \in S : \A j \in S : i <= j
    IN  IF normalized = <<>> THEN NoneV
        ELSE IF exact # {} THEN projects[First(exact)]
        ELSE IF partial # {} THEN projects[First(partial)]
        ELSE NoneV

\* PccClient.get_global_context up to its request
get_global_context ==
    Await(Request("GET", "global_context", NoneV, NoneV, NoneV),
          "get_global_context", NoneV)

\* PccClient.get_project_status up to its request
get_project_status(project_id) ==
    IF BlankArg(project_id)
    THEN Raise(PccClientError(Msg("Project id is required."), NoneV))
    ELSE Await(Request("GET", "repos", NoneV, NoneV, NoneV),
               "get_project_status", [project_id |-> project_id])

\* PccClient.get_project_status after /repos has answered
get_project_status_resume(locals, outcome) ==
    LET payload == _request_json(outcome)
        match == _select_project_summary(payload.ret.list, locals.project_id)
    IN  IF ~IsRet(payload) THEN payload
        ELSE IF "list" \notin DOMAIN payload.ret
        THEN Raise(PccClientError(Msg("PCC response for /repos was not a list."), NoneV))
        ELSE IF ~Truthy(match)
        THEN Raise(PccClientError(Msg("Project '<project_id>' not found."), IntV(404)))
        ELSE Ret(match)

\* PccClient.get_shift_context up to its request
get_shift_context(project_id) ==
    IF BlankArg(project_id)
    THEN Raise(PccClientError(Msg("Project id is required."), NoneV))
    ELSE Await(Request("GET", "shift_context", project_id, NoneV, NoneV),
               "get_shift_context", NoneV)

\* PccClient.create_work_order up to its request
create_work_order(project_id, data, locals) ==
    IF BlankArg(project_id)
    THEN Raise(PccClientError(Msg("Project id is required."), NoneV))
    ELSE Await(Request("POST", "work_orders", project_id, NoneV, data),
               "create_work_order", locals)

\* PccClient.patch_work_order up to its request
patch_work_order(project_id, work_order_id, data) ==
    IF BlankArg(project_id)
    THEN Raise(PccClientError(Msg("Project id is required."), NoneV))
    ELSE IF BlankArg(work_order_id)
    THEN Raise(PccClientError(Msg("Work order id is required."), NoneV))
    ELSE Await(Request("PATCH", "work_order", project_id, work_order_id, data),
               "patch_work_order", NoneV)

\* cleaned: the trimmed str items of emails that are not empty
RECURSIVE CleanedEmails(_)
CleanedEmails(emails) ==
    IF emails = <<>> THEN <<>>
    ELSE LET email == _coerce_str(Head(emails))
         IN  (IF Truthy(email) THEN <<email>> ELSE <<>>) \o CleanedEmails(Tail(emails))

NoParticipants == Dict([k \in {"participants"} |-> ListV(<<>>)])

\* PccClient.resolve_people_by_emails up to its request, or to its return
resolve_people_by_emails(emails, project_id) ==
    LET cleaned == CleanedEmails(emails)
        keys == {"emails"} \cup (IF Truthy(project_id) THEN {"project_id"} ELSE {})
        payload == Dict([k \in keys |->
                      IF k = "emails" THEN ListV(cleaned) ELSE project_id])
    IN  IF cleaned = <<>> THEN Ret(NoParticipants)
        ELSE Await(Request("POST", "people_resolve", NoneV, NoneV, payload),
                   "resolve_people_by_emails", NoneV)

\* PccClient.resolve_people_by_emails after /people/resolve has answered
resolve_people_by_emails_resume(outcome) ==
    LET response == _request_json(outcome)
    IN  IF ~IsRet(response) THEN response
        ELSE IF IsMapping(response.ret) THEN response
        ELSE Ret(NoParticipants)

\* A call of the client operation `name` up to its request
ClientStart(name, args) ==
    CASE name = "get_global_context" -> get_global_context
      [] name = "get_project_status" -> get_project_status(args.project_id)
      [] name = "get_shift_context" -> get_shift_context(args.project_id)
      [] name = "resolve_people_by_emails" ->
            resolve_people_by_emails(args.emails, args.project_id)
      [] name = "send_communication" -> send_communication(args)
      [] name = "create_work_order" ->
            create_work_order(args.project_id, args.data, NoneV)
      [] name = "patch_work_order" ->
            patch_work_order(args.project_id, args.work_order_id, args.data)

\* Mutant: a request that timed out is issued again
ClientResume_retry(stage, locals, outcome) ==
    IF outcome = Timeout /\ Len(call.requests) = 1
    THEN Await(call.requests[1], stage, locals)
    ELSE _request_json(outcome)

\* The client operation that awaits at `stage`, from the answer on
ClientResume(stage, locals, outcome) ==
    CASE stage = "get_project_status" -> get_project_status_resume(locals, outcome)
      [] stage = "resolve_people_by_emails" -> resolve_people_by_emails_resume(outcome)
      [] OTHER -> _request_json(outcome)

-----------------------------------------------------------------------------
(* Tool callbacks (create_tool_callbacks) *)

\* Mutant: escalation is an intent of create_action_item too
COMMUNICATION_INTENTS_with_escalation ==
    {"escalation", "request", "message", "suggestion", "status"}

COMMUNICATION_INTENTS == {"request", "message", "suggestion", "status"}
COMMUNICATION_SCOPES == {"project", "global", "user"}
ACTION_ITEM_TYPES == {"work_order", "communication"}

\* A str value as a literal of the source, when it is one of `literals`
\* (the characters of the enum words are spelled out in Word)
Word(w) ==
    CASE w = "project" -> <<"p","r","o","j","e","c","t">>
      [] w = "global" -> <<"g","l","o","b","a","l">>
      [] w = "user" -> <<"u","s","e","r">>
      [] w = "request" -> <<"r","e","q","u","e","s","t">>
      [] w = "message" -> <<"m","e","s","s","a","g","e">>
      [] w = "suggestion" -> <<"s","u","g","g","e","s","t","i","o","n">>
      [] w = "status" -> <<"s","t","a","t","u","s">>
      [] w = "escalation" -> <<"e","s","c","a","l","a","t","i","o","n">>
      [] w = "work_order" -> <<"w","o","r","k","_","o","r","d","e","r">>
      [] w = "communication" -> <<"c","o","m","m","u","n","i","c","a","t","i","o","n">>

\* `value in literals` for a str value
InWords(value, literals) ==
    \/ "msg" \in DOMAIN value /\ value.msg \in literals
    \/ "str" \in DOMAIN value /\ \E w \in literals : value.str = Word(w)

\* _resolve_to_scope: <<to_scope, to_project_id>>, or the ValueError
_resolve_to_scope(params, default_scope, project_id) ==
    LET explicit == _coerce_str(_get_param(params, <<"to_scope">>))
        to_scope == IF Truthy(explicit) THEN explicit ELSE Msg(default_scope)
        to_project_id == _coerce_str(_get_param(params, <<"to_project_id">>))
    IN  IF ~InWords(to_scope, COMMUNICATION_SCOPES)
        THEN Raise(Msg("to_scope must be project, global, or user."))
        ELSE Ret(<<to_scope,
                   IF InWords(to_scope, {"project"}) /\ ~Truthy(to_project_id)
                   THEN project_id ELSE to_project_id>>)

\* Mutant: the callback lets the client's error through
ClientCall_reraise(r) == r

\* What a PccClientError caught at the callback boundary becomes
ClientCall(r) ==
    IF IsRaise(r) /\ r.raise.exc = "PccClientError"
    THEN Ret(ErrorResult(r.raise.message))
    ELSE r

send_meeting_summary_tool(params) ==
    IF ~Truthy(params)
    THEN Ret(ErrorResult(Msg("Meeting summary details are required.")))
    ELSE LET project_id == _coerce_str(_get_param(params, <<"project_id", "project">>))
             meeting_id == _coerce_str(_get_param(params, <<"meeting_id", "meeting">>))
             summary_text ==
                 _coerce_str(_get_param(params, <<"summary", "meeting_summary">>))
             scope == _resolve_to_scope(params, "global", project_id)
         IN  IF ~Truthy(project_id) \/ ~Truthy(meeting_id) \/ ~Truthy(summary_text)
             THEN Ret(ErrorResult(
                      Msg("project_id, meeting_id, and summary are required.")))
             ELSE IF IsRaise(scope) THEN Ret(ErrorResult(scope.raise))
             ELSE ClientCall(send_communication(
                      CommArgs(project_id, Msg("status"),
                               Msg("Meeting summary <title or id>"),
                               scope.ret[1], scope.ret[2])))

get_global_context_tool(params) == ClientCall(get_global_context)

get_project_status_tool(params) ==
    LET project_id == _coerce_str(_get_param(params, <<"project_id", "project">>))
    IN  IF ~Truthy(project_id)
        THEN Ret(ErrorResult(Msg("project_id or project is required.")))
        ELSE ClientCall(get_project_status(project_id))

get_shift_context_tool(params) ==
    LET project_id == _coerce_str(_get_param(params, <<"project_id", "project">>))
    IN  IF ~Truthy(project_id)
        THEN Ret(ErrorResult(Msg("project_id is required.")))
        ELSE ClientCall(get_shift_context(project_id))

\* `x or default` for a coerced string
OrElse(value, default) == IF Truthy(value) THEN value ELSE default

send_communication_tool(params) ==
    IF ~Truthy(params)
    THEN Ret(ErrorResult(Msg("Communication details are required.")))
    ELSE LET project_id == _coerce_str(DictGet(params, "project_id"))
             intent == OrElse(_coerce_str(DictGet(params, "intent")), Msg("request"))
             summary == _coerce_str(DictGet(params, "summary"))
         IN  IF ~Truthy(project_id) \/ ~Truthy(summary)
             THEN Ret(ErrorResult(Msg("project_id and summary are required.")))
             ELSE ClientCall(send_communication(
                      CommArgs(project_id, intent, summary,
                               _coerce_str(DictGet(params, "to_scope")),
                               _coerce_str(DictGet(params, "to_project_id")))))

save_meeting_notes_tool(params) ==
    IF ~Truthy(params)
    THEN Ret(ErrorResult(Msg("Meeting note details are required.")))
    ELSE LET project_id == _coerce_str(_get_param(params, <<"project_id", "project">>))
             meeting_id == _coerce_str(_get_param(params, <<"meeting_id", "meeting">>))
             note == _coerce_str(_get_param(params, <<"note", "text">>))
             summary == OrElse(_coerce_str(_get_param(params, <<"summary">>)),
                               Msg("Meeting note <title or id>: <snippet>"))
             scope == _resolve_to_scope(params, "project", project_id)
         IN  IF ~Truthy(project_id) \/ ~Truthy(meeting_id) \/ ~Truthy(note)
             THEN Ret(ErrorResult(Msg("project_id, meeting_id, and note are required.")))
             ELSE IF IsRaise(scope) THEN Ret(ErrorResult(scope.raise))
             ELSE ClientCall(send_communication(
                      CommArgs(project_id, Msg("message"), summary,
                               scope.ret[1], scope.ret[2])))

\* create_action_item_tool once project_id, meeting_id and title are read
create_action_item_checked(params, project_id, meeting_id, title) ==
    LET action_type ==
            OrElse(_coerce_str(_get_param(params, <<"action_type", "type", "mode">>)),
                   Msg("work_order"))
        description ==
            _coerce_str(_get_param(params, <<"description", "details", "body">>))
        intent == OrElse(_coerce_str(_get_param(params, <<"intent">>)), Msg("request"))
        summary == OrElse(_coerce_str(_get_param(params, <<"summary">>)),
                          Msg("Action item (<meeting_id>): <title>"))
        scope == _resolve_to_scope(params, "global", project_id)
        sent == send_communication(
                    CommArgs(project_id, intent, summary, scope.ret[1], scope.ret[2]))
        create_payload == Dict([k \in {"title"} |-> title])
    IN  IF ~InWords(action_type, ACTION_ITEM_TYPES)
        THEN Ret(ErrorResult(Msg("action_type must be work_order or communication.")))
        ELSE IF InWords(action_type, {"communication"})
        THEN IF ~InWords(intent, COMMUNICATION_INTENTS)
             THEN Ret(ErrorResult(
                      Msg("intent must be request, message, suggestion, or status.")))
             ELSE IF IsRaise(scope) THEN Ret(ErrorResult(scope.raise))
             ELSE IF IsAwait(sent)
             THEN Await(sent.await, "action_communication", NoneV)
             ELSE ClientCall(sent)
        ELSE ClientCall(create_work_order(
                 project_id, create_payload,
                 [project_id |-> project_id, description |-> description]))

\* Mutant: the action item is created without checking its required fields
create_action_item_tool_unchecked(params) ==
    IF ~Truthy(params)
    THEN Ret(ErrorResult(Msg("Action item details are required.")))
    ELSE create_action_item_checked(
             params,
             OrElse(_coerce_str(_get_param(params, <<"project_id", "project">>)), Msg("<none>")),
             OrElse(_coerce_str(_get_param(params, <<"meeting_id", "meeting">>)), Msg("<none>")),
             OrElse(_coerce_str(_get_param(params, <<"title", "summary">>)), Msg("<none>")))

create_action_item_tool(params) ==
    IF ~Truthy(params)
    THEN Ret(ErrorResult(Msg("Action item details are required.")))
    ELSE LET project_id == _coerce_str(_get_param(params, <<"project_id", "project">>))
             meeting_id == _coerce_str(_get_param(params, <<"meeting_id", "meeting">>))
             title == _coerce_str(_get_param(params, <<"title", "summary">>))
         IN  IF ~Truthy(project_id) \/ ~Truthy(meeting_id) \/ ~Truthy(title)
             THEN Ret(ErrorResult(
                      Msg("project_id, meeting_id, and title are required.")))
             ELSE create_action_item_checked(params, project_id, meeting_id, title)

\* Mutant: whatever the create response holds is taken as the work order id
work_order_id_any(created) == Msg("<id>")

\* work_order_id = _coerce_str(created.get("id"))
work_order_id(created) == _coerce_str(DictGet(created, "id"))

\* create_action_item_tool after the create request has answered
create_action_item_created(locals, outcome) ==
    LET created == _request_json(outcome)
        keys == {"context"} \cup (IF Truthy(locals.description) THEN {"goal"} ELSE {})
        patch_payload == Dict([k \in keys |->
                            IF k = "goal" THEN locals.description
                            ELSE ListV(<<Msg("Origin: Meeting <meeting_id>")>>)])
    IN  IF ~IsRet(created) THEN ClientCall(created)
        ELSE IF ~IsMapping(created.ret)
        THEN Ret(ErrorResult(Msg("PCC response missing work order details.")))
        ELSE IF ~Truthy(work_order_id(created.ret))
        THEN Ret(ErrorResult(Msg("PCC response missing work order id.")))
        ELSE ClientCall(patch_work_order(
                 locals.project_id, work_order_id(created.ret), patch_payload))

\* Mutant: a failed request is wrapped like an answered one
Wrapped_failure_too(action_type, key, r) ==
    Ret(Dict([k \in {"action_type", key} |->
                 IF k = "action_type" THEN Msg(action_type)
                 ELSE IF IsRet(r) THEN r.ret ELSE NoneV]))

\* The results create_action_item_tool wraps around what the client returned
Wrapped(action_type, key, r) ==
    IF IsRet(r)
    THEN Ret(Dict([k \in {"action_type", key} |->
                      IF k = "action_type" THEN Msg(action_type) ELSE r.ret]))
    ELSE ClientCall(r)

\* The callback `name` from its call to its first await (or its return)
ToolStart(name, params) ==
    CASE name = "get_global_context" -> get_global_context_tool(params)
      [] name = "get_project_status" -> get_project_status_tool(params)
      [] name = "get_shift_context" -> get_shift_context_tool(params)
      [] name = "send_communication" -> send_communication_tool(params)
      [] name = "save_meeting_notes" -> save_meeting_notes_tool(params)
      [] name = "create_action_item" -> create_action_item_tool(params)
      [] name = "send_meeting_summary" -> send_meeting_summary_tool(params)

\* The callback `name` from the answer to the request it awaits at `stage`
ToolResume(name, params, stage, locals, outcome) ==
    CASE stage = "get_global_context" -> ClientCall(_request_json(outcome))
      [] stage = "get_project_status" ->
            ClientCall(get_project_status_resume(locals, outcome))
      [] stage = "get_shift_context" -> ClientCall(_request_json(outcome))
      [] stage = "send_communication" -> ClientCall(_request_json(outcome))
      [] stage = "action_communication" ->
            Wrapped("communication", "communication", _request_json(outcome))
      [] stage = "create_work_order" -> create_action_item_created(locals, outcome)
      [] stage = "patch_work_order" ->
            Wrapped("work_order", "work_order", _request_json(outcome))

-----------------------------------------------------------------------------
(* Inputs of the session *)

P1 == <<"p", "1">>
M1 == <<"m", "1">>
S1 == <<"s", "u", "m">>

MkDict(keys, f) == Dict([k \in keys |-> f[k]])

\* Parameter objects the language model passes to send_meeting_summary
SummaryCallParams ==
    { MkDict(ks, [project_id |-> Str(P1), meeting_id |-> Str(M1), summary |-> Str(S1)]) :
        ks \in { {"project_id", "meeting_id", "summary"}, {"project_id", "meeting_id"} } }

OkBody == Dict([k \in {"id"} |-> Str(<<"c", "1">>)])
ErrorBody == Dict([k \in {"error"} |-> Str(<<"n", "o">>)])

\* Answers of the control center to a communication request
SendOutcomes ==
    {Timeout, Response(200, OkBody), Response(200, ErrorBody), Response(500, InvalidJson)}

\* MeetingDefaults as load_config builds them from the environment
SessionDefaults ==
    { [project_id |-> p, meeting_id |-> m, meeting_title |-> NoneV,
       meeting_started_at |-> NoneV] :
        p \in {NoneV, Str(P1)}, m \in {NoneV, Str(M1)} }

-----------------------------------------------------------------------------
(* instrument_tool_callback._wrapped, called by the language model *)

NoResult == [unset |-> TRUE]
IdleCall == [name |-> "", params |-> NoneV, stage |-> "idle", locals |-> NoneV,
             result |-> NoResult, requests |-> <<>>, responses |-> <<>>]

CallFree == call.stage \in {"idle", "returned", "raised"}
ClientOpen == phase # "closed"

SummaryOk(name, res) ==
    IF name = "send_meeting_summary" /\ ~_result_is_error(res) THEN 1 ELSE 0

\* From the call to the callback's first await, or to its return
ToolInvoke(name, params, bound) ==
    /\ phase = "running"
    /\ CallFree
    /\ ncalls < bound
    /\ ncalls' = ncalls + 1
    /\ LET merged == _merge_tool_params(params, EmptyDict)
           tr1 == update_from_params(tracker, merged)
           r == ToolStart(name, merged)
           new == [IdleCall EXCEPT !.name = name, !.params = merged]
       IN  IF IsRet(r)
           THEN /\ tracker' = record_tool_result(tr1, name, merged, r.ret)
                /\ call' = [new EXCEPT !.stage = "returned", !.result = r.ret]
                /\ posted' = posted + SummaryOk(name, r.ret)
           ELSE IF IsAwait(r)
           THEN /\ tracker' = tr1
                /\ call' = [new EXCEPT !.stage = r.stage, !.locals = r.locals,
                                       !.requests = <<r.await>>]
                /\ posted' = posted
           ELSE /\ tracker' = tr1
                /\ call' = [new EXCEPT !.stage = "raised"]
                /\ posted' = posted
    /\ UNCHANGED <<pc, frame, lock, waiters, phase, closes>>

\* From the answer to the awaited request to the next await, or to the return
ToolResponse(outcome) ==
    /\ ClientOpen
    /\ ~CallFree
    /\ LET r == ToolResume(call.name, call.params, call.stage, call.locals, outcome)
           got == [call EXCEPT !.responses = Append(@, outcome)]
       IN  IF IsRet(r)
           THEN /\ tracker' = record_tool_result(tracker, call.name, call.params, r.ret)
                /\ call' = [got EXCEPT !.stage = "returned", !.locals = NoneV,
                                       !.result = r.ret]
                /\ posted' = posted + SummaryOk(call.name, r.ret)
           ELSE IF IsAwait(r)
           THEN /\ call' = [got EXCEPT !.stage = r.stage, !.locals = r.locals,
                                       !.requests = Append(@, r.await)]
                /\ UNCHANGED <<tracker, posted>>
           ELSE /\ call' = [got EXCEPT !.stage = "raised", !.locals = NoneV]
                /\ UNCHANGED <<tracker, posted>>
    /\ UNCHANGED <<pc, frame, lock, waiters, phase, ncalls, closes>>

-----------------------------------------------------------------------------
(* MeetingSummaryDispatcher.send_if_needed *)

Tasks == 0..MaxDisconnects      \* 0: "pipeline_end"; the others: "disconnect"
NoTask == -1

Returned == {"returned_sent", "returned_blocked", "returned"}
NewFrame == [params |-> NoneV, result |-> NoResult]

\* asyncio.Lock.release as task p leaves `async with` at position at:
\* the first waiter is woken and owns the lock when it resumes
LockAfter == IF waiters = <<>> THEN NoTask ELSE Head(waiters)
WaitersAfter == IF waiters = <<>> THEN waiters ELSE Tail(waiters)
PcAfter(p, at) ==
    [q \in Tasks |->
        IF q = p THEN at
        ELSE IF waiters # <<>> /\ q = Head(waiters) THEN "locked"
        ELSE pc[q]]

Leave(p, at) ==
    /\ pc' = PcAfter(p, at)
    /\ lock' = LockAfter
    /\ waiters' = WaitersAfter

\* The body of `async with self._lock`, run by the task that owns the lock,
\* up to the await of self._send_summary (the instrumented callback)
Body(p) ==
    IF summary_sent(tracker)
    THEN /\ Leave(p, "returned_sent")
         /\ UNCHANGED <<tracker, frame, posted>>
    ELSE LET params == build_summary_params(tracker, _iso_now)
             tr0 == build_summary_params_tracker(tracker)
         IN  IF IsNone(params)
             THEN /\ Leave(p, "returned_blocked")
                  /\ tracker' = tr0
                  /\ UNCHANGED <<frame, posted>>
             ELSE LET merged == _merge_tool_params(params, EmptyDict)
                      tr1 == update_from_params(tr0, merged)
                      r == ToolStart("send_meeting_summary", merged)
                  IN  IF IsRet(r)
                      THEN /\ tracker' = record_tool_result(
                                             tr1, "send_meeting_summary", merged, r.ret)
                           /\ frame' = [frame EXCEPT ![p] =
                                            [params |-> params, result |-> r.ret]]
                           /\ posted' = posted + SummaryOk("send_meeting_summary", r.ret)
                           /\ Leave(p, "returned")
                      ELSE IF IsAwait(r) /\ ClientOpen
                      THEN /\ tracker' = tr1
                           /\ frame' = [frame EXCEPT ![p].params = params]
                           /\ posted' = posted
                           /\ pc' = [pc EXCEPT ![p] = "sending"]
                           /\ lock' = p
                           /\ waiters' = waiters
                      ELSE \* the closed client raises RuntimeError in request()
                           /\ tracker' = tr1
                           /\ frame' = [frame EXCEPT ![p].params = params]
                           /\ posted' = posted
                           /\ Leave(p, "raised")

\* Mutant: the body is entered without acquiring the lock
Enter_without_lock(p) == Body(p)

\* send_if_needed from its call to its first suspension
Enter(p) ==
    IF lock = NoTask
    THEN Body(p)
    ELSE /\ pc' = [pc EXCEPT ![p] = "waiting"]
         /\ waiters' = Append(waiters, p)
         /\ UNCHANGED <<tracker, frame, lock, posted>>

\* schedule_summary("disconnect"): loop.call_soon_threadsafe(create_task(...))
Disconnect(p) ==
    /\ phase \in {"running", "ending"}
    /\ p # 0
    /\ pc[p] = "unborn"
    /\ \A q \in 1..(p - 1) : pc[q] # "unborn"
    /\ pc' = [pc EXCEPT ![p] = "scheduled"]
    /\ UNCHANGED <<tracker, frame, lock, waiters, phase, call, ncalls, posted, closes>>

\* The event loop runs the task created by schedule_summary
TaskStart(p) ==
    /\ pc[p] = "scheduled"
    /\ Enter(p)
    /\ UNCHANGED <<phase, call, ncalls, closes>>

\* A waiter woken by release() resumes and runs the body
TaskResume(p) ==
    /\ pc[p] = "locked"
    /\ lock = p
    /\ Body(p)
    /\ UNCHANGED <<phase, call, ncalls, closes>>

\* self._send_summary(params) answers: the rest of _wrapped, then of the body
SendResponse(p, outcome) ==
    /\ pc[p] = "sending"
    /\ ClientOpen
    /\ LET r == ToolResume("send_meeting_summary", frame[p].params,
                           "send_communication", NoneV, outcome)
       IN  IF IsRet(r)
           THEN /\ tracker' = record_tool_result(
                                  tracker, "send_meeting_summary", frame[p].params, r.ret)
                /\ frame' = [frame EXCEPT ![p].result = r.ret]
                /\ posted' = posted + SummaryOk("send_meeting_summary", r.ret)
                /\ Leave(p, "returned")
           ELSE /\ UNCHANGED <<tracker, frame, posted>>
                /\ Leave(p, "raised")
    /\ UNCHANGED <<phase, call, ncalls, closes>>

-----------------------------------------------------------------------------
(* run_pipeline and main *)

\* run_pipeline_task(task) ends (or raises): the finally clause awaits
\* dispatcher.send_if_needed("pipeline_end")
PipelineEnd ==
    /\ phase = "running"
    /\ phase' = "ending"
    /\ Enter(0)
    /\ UNCHANGED <<call, ncalls, closes>>

\* run_pipeline is over: main's finally clause closes the client
MainClose ==
    /\ phase = "ending"
    /\ pc[0] \in Returned \cup {"raised"}
    /\ phase' = "closed"
    /\ closes' = closes + 1
    /\ UNCHANGED <<tracker, pc, frame, lock, waiters, call, ncalls, posted>>

\* asyncio.run cancels the tasks that are left when main is over
Cancel(p) ==
    /\ phase = "closed"
    /\ pc[p] \in {"scheduled", "waiting", "locked", "sending"}
    /\ IF pc[p] \in {"locked", "sending"}
       THEN Leave(p, "raised")
       ELSE /\ pc' = [pc EXCEPT ![p] = "raised"]
            /\ waiters' = SelectSeq(waiters, LAMBDA q : q # p)
            /\ lock' = lock
    /\ UNCHANGED <<tracker, frame, phase, call, ncalls, posted, closes>>

Init ==
    /\ tracker \in {NewTracker(d) : d \in SessionDefaults}
    /\ pc = [p \in Tasks |-> "unborn"]
    /\ frame = [p \in Tasks |-> NewFrame]
    /\ lock = NoTask
    /\ waiters = <<>>
    /\ phase = "running"
    /\ call = IdleCall
    /\ ncalls = 0
    /\ posted = 0
    /\ closes = 0

Next ==
    \/ \E params \in SummaryCallParams : ToolInvoke("send_meeting_summary", params, MaxCalls)
    \/ \E outcome \in SendOutcomes : ToolResponse(outcome)
    \/ \E p \in Tasks : Disconnect(p)
    \/ \E p \in Tasks : TaskStart(p)
    \/ \E p \in Tasks : TaskResume(p)
    \/ \E p \in Tasks, outcome \in SendOutcomes : SendResponse(p, outcome)
    \/ PipelineEnd
    \/ MainClose
    \/ \E p \in Tasks : Cancel(p)

Spec == Init /\ [][Next]_vars

-----------------------------------------------------------------------------
(* main from the creation of the client (specification SpecMain) *)

\* main's try block up to run_pipeline's pipeline task: build_system_prompt,
\* the tool callbacks, the tracker, the services, the dispatcher, the transport
MainSetup ==
    /\ phase = "created"
    /\ phase' = "running"
    /\ UNCHANGED <<tracker, pc, frame, lock, waiters, call, ncalls, posted, closes>>

\* Mutant: the early return skips the close
MainAbort_without_close ==
    /\ phase = "created"
    /\ phase' = "closed"
    /\ UNCHANGED <<tracker, pc, frame, lock, waiters, call, ncalls, posted, closes>>

\* main leaves its try block before the pipeline runs: an early return (the
\* Anthropic or ElevenLabs service or the transport is missing), an exception
\* or a cancellation; the finally clause closes the client
MainAbort ==
    /\ phase = "created"
    /\ phase' = "closed"
    /\ closes' = closes + 1
    /\ UNCHANGED <<tracker, pc, frame, lock, waiters, call, ncalls, posted>>

\* Mutant: the cancelled call keeps the lock it holds
CancelMain_keeps_lock ==
    /\ phase = "ending"
    /\ pc[0] \in {"waiting", "locked", "sending"}
    /\ pc' = [pc EXCEPT ![0] = "raised"]
    /\ waiters' = SelectSeq(waiters, LAMBDA q : q # 0)
    /\ lock' = lock
    /\ UNCHANGED <<tracker, frame, phase, call, ncalls, posted, closes>>

\* main is cancelled while run_pipeline's finally clause awaits
\* send_if_needed("pipeline_end"): CancelledError leaves the call
CancelMain ==
    /\ phase = "ending"
    /\ pc[0] \in {"waiting", "locked", "sending"}
    /\ IF pc[0] \in {"locked", "sending"}
       THEN Leave(0, "raised")
       ELSE /\ pc' = [pc EXCEPT ![0] = "raised"]
            /\ waiters' = SelectSeq(waiters, LAMBDA q : q # 0)
            /\ lock' = lock
    /\ UNCHANGED <<tracker, frame, phase, call, ncalls, posted, closes>>

InitMain ==
    /\ tracker \in {NewTracker(d) : d \in SessionDefaults}
    /\ pc = [p \in Tasks |-> "unborn"]
    /\ frame = [p \in Tasks |-> NewFrame]
    /\ lock = NoTask
    /\ waiters = <<>>
    /\ phase = "created"
    /\ call = IdleCall
    /\ ncalls = 0
    /\ posted = 0
    /\ closes = 0

NextMain ==
    \/ MainSetup
    \/ MainAbort
    \/ CancelMain
    \/ Next

SpecMain == InitMain /\ [][NextMain]_vars

-----------------------------------------------------------------------------
(* Claims about the dispatcher and the session (specification Spec) *)

\* The {"error": <non-blank string>} convention, as the claims use it
ErrorShaped(res) ==
    /\ "dict" \in DOMAIN res
    /\ "error" \in DOMAIN res.dict
    /\ \/ DOMAIN res.dict["error"] \subseteq {"msg", "lines"}
       \/ /\ "str" \in DOMAIN res.dict["error"]
          /\ \E i \in 1..Len(res.dict["error"].str) :
                 res.dict["error"].str[i] \notin Whitespace

IdentityComplete(tr) == ~IsNone(tr.project_id) /\ ~IsNone(tr.meeting_id)

\* Tasks whose send returned, with a non-error and with an error result
Delivered == {p \in Tasks : pc[p] = "returned" /\ ~ErrorShaped(frame[p].result)}
Failed == {p \in Tasks : pc[p] = "returned" /\ ErrorShaped(frame[p].result)}
Called == {p \in Tasks : pc[p] # "unborn"}

\* C1: among the send_if_needed calls of one dispatcher, in any interleaving
\* and with any mix of failing and succeeding sends, at most one invocation
\* of the sending callback returns a non-error result.
C1_AtMostOneDispatcherDelivery == Cardinality(Delivered) <= 1

\* Three calls have returned: one send failed, a later one succeeded, and
\* the third found the tracker in Sent.
C1_Witness ==
    \E p, q, r \in Tasks :
        /\ p \in Failed
        /\ q \in Delivered
        /\ pc[r] = "returned_sent"

\* C2 (as claimed): over the whole session, counting the language model's
\* own send_meeting_summary calls and the dispatcher's sends, at most one
\* summary send completes with a non-error result.
C2_AtMostOneSummarySend == posted <= 1

\* C3 (as claimed): after two or more send_if_needed calls on a tracker with
\* project_id and meeting_id have all returned, the sent flag is true.
AllReturned ==
    /\ Cardinality(Called) >= 2
    /\ \A p \in Called : pc[p] \in Returned \ {"returned_blocked"}
    /\ IdentityComplete(tracker)

C3_SentAfterAllReturned == AllReturned => tracker.summary_sent

\* C3 (amended): after two or more send_if_needed calls on a tracker with
\* project_id and meeting_id have all returned, the sent flag is true unless
\* every one of the calls invoked the sending callback and got an
\* error-shaped result.
C3_SentUnlessAllFailed ==
    AllReturned => (tracker.summary_sent \/ Called \subseteq Failed)

C3_Witness ==
    /\ AllReturned
    /\ tracker.summary_sent
    /\ Failed # {}
    /\ Delivered # {}

\* C4 (as claimed): a session in which the pipeline was started ends with
\* the summary delivered, however it ends.
C4_SessionEndsSent == phase = "closed" => tracker.summary_sent

\* C4 (amended): when the send_if_needed call of the pipeline's end has
\* returned, the tracker is in Sent unless project_id or meeting_id was
\* missing or that call's send returned an error-shaped result.
C4_SentUnlessBlockedOrFailed ==
    pc[0] \in Returned =>
        \/ tracker.summary_sent
        \/ pc[0] = "returned_blocked"
        \/ 0 \in Failed

\* A disconnect and the pipeline's end raced; the summary was delivered
\* once and the session is over.
C4_Witness ==
    /\ phase = "closed"
    /\ tracker.summary_sent
    /\ pc[0] \in Returned
    /\ \E p \in Tasks \ {0} : pc[p] \in Returned

\* C5: a summary send that returns an error-shaped result leaves the sent
\* flag as it was, and a send_if_needed call that then runs with the flag
\* false (and the identity known) invokes the sending callback again.
C5_FailedSendAllowsRetry ==
    [][\A p \in Tasks :
          /\ (pc[p] = "sending" /\ pc'[p] = "returned"
                  /\ ErrorShaped(frame'[p].result))
                 => tracker'.summary_sent = tracker.summary_sent
          /\ (pc[p] \in {"unborn", "scheduled", "locked"}
                  /\ pc'[p] \notin {pc[p], "scheduled", "waiting"}
                  /\ phase' # "closed"
                  /\ ~tracker.summary_sent /\ IdentityComplete(tracker))
                 => pc'[p] = "sending"]_vars

\* One send has failed, the tracker is still Collecting, and a later call
\* is sending again.
C5_Witness ==
    /\ ~tracker.summary_sent
    /\ Failed # {}
    /\ \E p \in Tasks : pc[p] = "sending"

-----------------------------------------------------------------------------
(* The tracker alone: tool results observed one after the other *)

A == <<"a">>
B == <<"b">>
Blank == <<" ">>

\* Parameter objects of the observed calls
ObservedParams ==
    { Dict([k \in {"note"} |-> Str(A)]),
      Dict([k \in {"text"} |-> Str(B)]),
      Dict([k \in {"note"} |-> Str(Blank)]),
      Dict([k \in {"title"} |-> Str(A)]) }

ObservedResults == {OkBody, ErrorBody}
ObservedNames == {"save_meeting_notes", "create_action_item"}

\* MeetingDefaults: each identifier unset or set in the environment
TrackerDefaults ==
    { [project_id |-> p, meeting_id |-> m, meeting_title |-> NoneV,
       meeting_started_at |-> NoneV] :
        p \in {NoneV, Str(P1)}, m \in {NoneV, Str(M1)} }

\* _wrapped around a callback that answers res
Observe(name, params, res, bound) ==
    /\ ncalls < bound
    /\ ncalls' = ncalls + 1
    /\ LET merged == _merge_tool_params(params, EmptyDict)
       IN  /\ tracker' = record_tool_result(
                             update_from_params(tracker, merged), name, merged, res)
           /\ call' = [IdleCall EXCEPT !.name = name, !.params = merged,
                                        !.stage = "returned", !.result = res]
    /\ UNCHANGED <<pc, frame, lock, waiters, phase, posted, closes>>

\* tracker.build_summary_params(ended_at=_iso_now()), its value kept in call
BuildSummaryParams ==
    /\ call.name # "build_summary_params"
    /\ tracker' = build_summary_params_tracker(tracker)
    /\ call' = [IdleCall EXCEPT !.name = "build_summary_params",
                                 !.stage = "returned",
                                 !.result = build_summary_params(tracker, _iso_now)]
    /\ UNCHANGED <<pc, frame, lock, waiters, phase, ncalls, posted, closes>>

InitTracker ==
    /\ tracker \in {NewTracker(d) : d \in TrackerDefaults}
    /\ pc = [p \in Tasks |-> "unborn"]
    /\ frame = [p \in Tasks |-> NewFrame]
    /\ lock = NoTask
    /\ waiters = <<>>
    /\ phase = "running"
    /\ call = IdleCall
    /\ ncalls = 0
    /\ posted = 0
    /\ closes = 0

NextTracker ==
    \/ \E name \in ObservedNames, params \in ObservedParams, res \in ObservedResults :
           Observe(name, params, res, MaxObserved)
    \/ BuildSummaryParams

SpecTracker == InitTracker /\ [][NextTracker]_vars

\* C6: the note list and the action-item list never hold more than their
\* cap; an accepted entry (non-error result, non-blank text) is appended, as
\* stored, while the list is below its cap, and every other observed result
\* leaves the list as it is: each list is the first cap accepted entries in
\* the order they were recorded.
C6_CapsKeepFirstEntries ==
    [][ncalls' = ncalls + 1 =>
          LET ok == ~ErrorShaped(call'.result)
              note == _coerce_str(_get_param(call'.params, <<"note", "text">>))
              title == _coerce_str(_get_param(call'.params, <<"title", "summary">>))
              newNote == call'.name = "save_meeting_notes" /\ ok /\ ~IsNone(note)
              newItem == call'.name = "create_action_item" /\ ok /\ ~IsNone(title)
          IN  /\ tracker'.notes =
                     IF newNote /\ Len(tracker.notes) < max_notes
                     THEN Append(tracker.notes, _truncate_text(note, NoteLimit))
                     ELSE tracker.notes
              /\ tracker'.action_items =
                     IF newItem /\ Len(tracker.action_items) < max_action_items
                     THEN Append(tracker.action_items, _truncate_text(title, NoteLimit))
                     ELSE tracker.action_items
              /\ Len(tracker'.notes) <= max_notes
              /\ Len(tracker'.action_items) <= max_action_items]_vars

\* The note list is full and an accepted note, other than the fifth, has
\* just been dropped.
C6_Witness ==
    /\ Len(tracker.notes) = max_notes
    /\ call.name = "save_meeting_notes"
    /\ ~ErrorShaped(call.result)
    /\ ~IsNone(_coerce_str(_get_param(call.params, <<"note", "text">>)))
    /\ tracker.notes[max_notes] # _coerce_str(_get_param(call.params, <<"note", "text">>))
    /\ ncalls > max_notes

\* C8: build_summary_params returns None when project_id or meeting_id is
\* unset, and otherwise a parameter object carrying the tracker's project_id
\* and meeting_id, whether or not notes or action items were recorded.
C8_SummaryParamsIffIdentity ==
    call.name = "build_summary_params" =>
        IF IsNone(tracker.project_id) \/ IsNone(tracker.meeting_id)
        THEN call.result = NoneV
        ELSE /\ "dict" \in DOMAIN call.result
             /\ {"project_id", "meeting_id"} \subseteq DOMAIN call.result.dict
             /\ call.result.dict["project_id"] = tracker.project_id
             /\ call.result.dict["meeting_id"] = tracker.meeting_id

\* Parameters were built for a tracker that knows its identity and has
\* recorded nothing.
C8_Witness ==
    /\ call.name = "build_summary_params"
    /\ "dict" \in DOMAIN call.result
    /\ tracker.notes = <<>>
    /\ tracker.action_items = <<>>

-----------------------------------------------------------------------------
(* One saved note: the text the tracker stores *)

\* A text of n characters, blank at the positions ws
TextWith(n, ws) == [i \in 1..n |-> IF i \in ws THEN " " ELSE "x"]

\* Blanks at the ends of the text and around the place where it is clipped
BlankPlaces(n) == {1, n} \cup ((NoteLimit - 4)..(NoteLimit - 2))

NoteTexts ==
    UNION { {TextWith(n, ws) : ws \in SUBSET BlankPlaces(n)} :
              n \in (NoteLimit - 1)..(NoteLimit + MaxOver) }

SaveNote(text) ==
    Observe("save_meeting_notes", Dict([k \in {"note"} |-> Str(text)]), OkBody,
            MaxNoteCalls)

InitNote ==
    /\ tracker = NewTracker([project_id |-> Str(P1), meeting_id |-> Str(M1),
                             meeting_title |-> NoneV, meeting_started_at |-> NoneV])
    /\ pc = [p \in Tasks |-> "unborn"]
    /\ frame = [p \in Tasks |-> NewFrame]
    /\ lock = NoTask
    /\ waiters = <<>>
    /\ phase = "running"
    /\ call = IdleCall
    /\ ncalls = 0
    /\ posted = 0
    /\ closes = 0

NextNote == \E text \in NoteTexts : SaveNote(text)

SpecNote == InitNote /\ [][NextNote]_vars

\* The text passed to the last save_meeting_notes call and the note stored
RawNote == call.params.dict["note"].str
StoredNote == tracker.notes[Len(tracker.notes)].str
EndsWithEllipsis(s) == Len(s) >= 3 /\ SubSeq(s, Len(s) - 2, Len(s)) = <<".", ".", ".">>

\* C7 (as claimed): for every note text longer than 140 characters, with
\* white space at any position, the stored note is exactly 140 characters
\* long and ends with "...".
C7_LongNoteStoredAs140 ==
    (call.name = "save_meeting_notes" /\ Len(RawNote) > 140) =>
        /\ Len(StoredNote) = 140
        /\ EndsWithEllipsis(StoredNote)

\* C7 (amended): for every note text longer than 140 characters after
\* trimming, the stored note ends with "..." and is at most 140 characters
\* long; it is exactly 140 characters long if and only if the 137th
\* character of the trimmed text is not white space.
C7_LongNoteClipped ==
    (call.name = "save_meeting_notes" /\ Len(strip(RawNote)) > 140) =>
        /\ EndsWithEllipsis(StoredNote)
        /\ Len(StoredNote) <= 140
        /\ Len(StoredNote) = 140 <=> strip(RawNote)[137] \notin Whitespace

\* A long note with a blank where it is clipped was stored shorter than 140.
C7_Witness ==
    /\ call.name = "save_meeting_notes"
    /\ Len(strip(RawNote)) > 140
    /\ strip(RawNote)[137] \in Whitespace
    /\ Len(StoredNote) < 140
    /\ EndsWithEllipsis(StoredNote)

-----------------------------------------------------------------------------
(* The tool callbacks as the language model calls them (specification     *)
(* SpecTools): up to MaxToolCalls calls, one at a time, of any callback    *)
(* with any of the parameter objects below, and any answer to each request *)

MaxToolCalls == 1

Absent == [absent |-> TRUE]
Bogus == <<"b", "o", "g", "u", "s">>
W1 == <<"w", "1">>

\* The parameter objects that give each key of `opts` one of its values, or
\* leave it out where the value is Absent
Objects(opts) ==
    { Dict([k \in {j \in DOMAIN opts : f[j] # Absent} |-> f[k]]) :
        f \in { g \in [DOMAIN opts -> UNION {opts[k] : k \in DOMAIN opts}] :
                  \A k \in DOMAIN opts : g[k] \in opts[k] } }

\* A field given as a string, or missing, blank or not a string
AnyField(chars) == {Absent, Str(Blank), IntV(7), Str(chars)}

ContextParams ==
    {NoneV} \cup Objects([project_id |-> AnyField(P1), project |-> {Absent, Str(P1)}])

CommunicationParams ==
    {NoneV} \cup Objects([project_id |-> AnyField(P1), summary |-> AnyField(S1),
                          intent |-> {Absent, Str(Bogus)},
                          to_scope |-> {Absent, Str(Bogus)}])

NoteParams ==
    {NoneV} \cup Objects([project_id |-> {Absent, IntV(7), Str(P1)},
                          meeting_id |-> {Absent, Str(Blank), Str(M1)},
                          note |-> AnyField(A), text |-> {Absent, Str(B)},
                          to_scope |-> {Absent, Str(Bogus)}])

ActionParams ==
    {NoneV} \cup Objects([project_id |-> {Absent, Str(Blank), Str(P1)},
                          meeting_id |-> {Absent, IntV(7), Str(M1)},
                          title |-> AnyField(A), summary |-> {Absent, Str(S1)},
                          action_type |-> {Absent, Str(Word("communication")),
                                           Str(Bogus)}])

SummaryParams ==
    {NoneV} \cup Objects([project_id |-> {Absent, IntV(7), Str(P1)},
                          meeting_id |-> {Absent, Str(Blank), Str(M1)},
                          summary |-> AnyField(S1)])

P3 == <<"P", "3">>

\* The objects of S with `key` given each of `values`, or left out where the
\* value is Absent
WithField(S, key, values) ==
    { IF v = Absent THEN d
      ELSE Dict([k \in DOMAIN d.dict \cup {key} |-> IF k = key THEN v ELSE d.dict[k]]) :
        d \in S, v \in values }

\* An object with every required field, addressed to no scope, to a scope
\* of the enum or to one outside it, with or without a target project
Addressed(S) ==
    WithField(WithField(S, "to_scope",
                        {Absent, Str(Bogus), Str(Word("project")), Str(Word("user"))}),
              "to_project_id", {Absent, Str(P3)})

AddressedCommunicationParams ==
    Addressed({Dict([k \in {"project_id", "summary"} |->
                        IF k = "project_id" THEN Str(P1) ELSE Str(S1)])})

AddressedNoteParams ==
    Addressed({Dict([k \in {"project_id", "meeting_id", "note"} |->
                        CASE k = "project_id" -> Str(P1) [] k = "meeting_id" -> Str(M1)
                          [] OTHER -> Str(A)])})

AddressedSummaryParams ==
    Addressed({Dict([k \in {"project_id", "meeting_id", "summary"} |->
                        CASE k = "project_id" -> Str(P1) [] k = "meeting_id" -> Str(M1)
                          [] OTHER -> Str(S1)])})

\* create_action_item asked for a communication, with each intent
AddressedActionParams ==
    Addressed(WithField(
        {Dict([k \in {"project_id", "meeting_id", "title", "action_type"} |->
                  CASE k = "project_id" -> Str(P1) [] k = "meeting_id" -> Str(M1)
                    [] k = "title" -> Str(A) [] OTHER -> Str(Word("communication"))])},
        "intent",
        {Absent, Str(Bogus), Str(Word("escalation")), Str(Word("request")),
         Str(Word("message")), Str(Word("suggestion")), Str(Word("status"))}))

ToolNames ==
    {"get_global_context", "get_project_status", "get_shift_context",
     "send_communication", "save_meeting_notes", "create_action_item",
     "send_meeting_summary"}

ToolParams(name) ==
    CASE name = "get_global_context" -> {NoneV}
      [] name = "get_project_status" -> ContextParams
      [] name = "get_shift_context" -> ContextParams
      [] name = "send_communication" ->
            CommunicationParams \cup AddressedCommunicationParams
      [] name = "save_meeting_notes" -> NoteParams \cup AddressedNoteParams
      [] name = "create_action_item" -> ActionParams \cup AddressedActionParams
      [] name = "send_meeting_summary" -> SummaryParams \cup AddressedSummaryParams

Project(id, name) ==
    Dict([k \in {"id", "name"} |-> IF k = "id" THEN Str(id) ELSE Str(name)])

\* Answers of the control center to GET /repos
ReposOutcomes ==
    {Timeout, Response(200, OkBody), Response(200, ListV(<<>>)),
     Response(200, ListV(<<IntV(7), Project(<<"P", "1", "0">>, <<"B">>),
                           Project(<<" ", "P", "1">>, <<"A">>)>>))}

\* Answers of the control center to POST /repos/{id}/work-orders
CreateOutcomes ==
    {Timeout, RequestError, Response(500, InvalidJson), Response(404, ErrorBody),
     Response(201, InvalidJson), Response(201, ListV(<<>>)),
     Response(201, EmptyDict),
     Response(201, Dict([k \in {"id"} |-> IntV(7)])),
     Response(201, Dict([k \in {"id"} |-> Str(Blank)])),
     Response(201, Dict([k \in {"id"} |-> Str(W1)]))}

PatchOutcomes ==
    {Timeout, Response(404, ErrorBody), Response(200, Dict([k \in {"id"} |-> Str(W1)]))}

\* The answers the network can give to the request awaited at `stage`
OutcomesFor(stage) ==
    CASE stage = "get_project_status" -> ReposOutcomes
      [] stage = "create_work_order" -> CreateOutcomes
      [] stage = "patch_work_order" -> PatchOutcomes
      [] stage \in {"get_global_context", "get_shift_context", "send_communication",
                    "action_communication"} -> SendOutcomes
      [] OTHER -> {}

InitTools ==
    /\ Init
    /\ tracker = NewTracker([project_id |-> NoneV, meeting_id |-> NoneV,
                             meeting_title |-> NoneV, meeting_started_at |-> NoneV])

NextTools ==
    \/ \E name \in ToolNames : \E params \in ToolParams(name) :
           ToolInvoke(name, params, MaxToolCalls)
    \/ \E outcome \in OutcomesFor(call.stage) : ToolResponse(outcome)

SpecTools == InitTools /\ [][NextTools]_vars

\* The fields each callback requires, each with the keys it is read from
RequiredFields(name) ==
    CASE name \in {"get_project_status", "get_shift_context"} ->
            {<<"project_id", "project">>}
      [] name = "send_communication" -> {<<"project_id">>, <<"summary">>}
      [] name = "save_meeting_notes" ->
            {<<"project_id", "project">>, <<"meeting_id", "meeting">>, <<"note", "text">>}
      [] name = "create_action_item" ->
            {<<"project_id", "project">>, <<"meeting_id", "meeting">>,
             <<"title", "summary">>}
      [] name = "send_meeting_summary" ->
            {<<"project_id", "project">>, <<"meeting_id", "meeting">>,
             <<"summary", "meeting_summary">>}
      [] OTHER -> {}

NonBlankString(v) ==
    /\ "str" \in DOMAIN v
    /\ \E i \in 1..Len(v.str) : v.str[i] \notin Whitespace

\* The field read from `keys` is missing, blank or not a string: no key is
\* in the object, or the value under the first key that is in it is no
\* non-blank string
FieldMissing(params, keys) ==
    \/ "dict" \notin DOMAIN params
    \/ \A i \in 1..Len(keys) :
           (keys[i] \in DOMAIN params.dict /\ \A j \in 1..(i - 1) : keys[j] \notin DOMAIN params.dict)
               => ~NonBlankString(params.dict[keys[i]])

SomeFieldMissing(c) == \E keys \in RequiredFields(c.name) : FieldMissing(c.params, keys)

TitleRequired ==
    Dict([k \in {"error"} |-> Msg("project_id, meeting_id, and title are required.")])

UsableCreateResponse(o) ==
    /\ o.kind = "response"
    /\ o.status >= 200 /\ o.status < 300
    /\ "dict" \in DOMAIN o.body
    /\ "id" \in DOMAIN o.body.dict
    /\ NonBlankString(o.body.dict["id"])

\* The create response is 2xx and valid JSON, yet has no usable id
CreatedWithoutId(o) ==
    /\ o.kind = "response"
    /\ o.status >= 200 /\ o.status < 300
    /\ o.body # InvalidJson
    /\ ~UsableCreateResponse(o)

\* C10: in create_action_item with action_type work_order, the patch request
\* is issued only after the create request has returned successfully with a
\* work order id that can be extracted; when the create response has no
\* usable id, the callback returns an error result and issues no patch
\* request.
C10_PatchOnlyAfterCreateWithId ==
    /\ \A i \in 1..Len(call.requests) :
           call.requests[i].method = "PATCH"
               => /\ i = 2
                  /\ call.requests[1].method = "POST"
                  /\ call.requests[1].endpoint = "work_orders"
                  /\ Len(call.responses) >= 1
                  /\ UsableCreateResponse(call.responses[1])
                  /\ call.requests[i].work_order_id = call.responses[1].body.dict["id"]
    /\ (/\ Len(call.requests) >= 1
        /\ call.requests[1].endpoint = "work_orders"
        /\ Len(call.responses) >= 1
        /\ CreatedWithoutId(call.responses[1]))
           => /\ call.stage = "returned"
              /\ ErrorShaped(call.result)
              /\ Len(call.requests) = 1

\* A work order was created with id w1 and patched, and the callback
\* returned the patched work order.
C10_Witness ==
    /\ call.name = "create_action_item"
    /\ call.stage = "returned"
    /\ Len(call.requests) = 2
    /\ call.requests[2].method = "PATCH"
    /\ call.requests[2].work_order_id = Str(W1)
    /\ Len(call.responses) = 2
    /\ ~ErrorShaped(call.result)

-----------------------------------------------------------------------------
(* Claims about main (specification SpecMain) *)

\* C13: on every path of main after the client has been created (normal
\* return, early return on a missing service, exception, cancellation), the
\* client's close is invoked exactly once before main is over: never before,
\* and never a second time.
C13_ClosedExactlyOnce == closes = (IF phase = "closed" THEN 1 ELSE 0)

\* main was cancelled while it awaited the pipeline_end send, and has closed
\* the client.
C13_Witness ==
    /\ phase = "closed"
    /\ pc[0] = "raised"
    /\ closes = 1

-----------------------------------------------------------------------------
(* Claims about the dispatcher's lock (specification Spec) *)

\* The invocations between the sent-check and the completion of the send,
\* and the woken waiter that owns the lock and is about to make the check
InBody == {p \in Tasks : pc[p] \in {"locked", "sending"}}

\* C14: at any moment at most one send_if_needed invocation of the
\* dispatcher is between its sent-check and the completion of its send, and
\* it holds the lock; an invocation that waits leaves its wait only when the
\* holder has finished and handed it the lock (or when it is cancelled).
C14_OneBodyAtATime ==
    /\ [](/\ Cardinality(InBody) <= 1
          /\ \A p \in InBody : lock = p
          /\ \A q \in Tasks : pc[q] = "waiting" => lock \in Tasks \ {q})
    /\ [][\A q \in Tasks :
             (pc[q] = "waiting" /\ pc'[q] # "waiting")
                 => \/ pc'[q] = "raised"
                    \/ /\ pc'[q] = "locked"
                       /\ lock' = q
                       /\ pc'[lock] \in Returned \cup {"raised"}]_vars

\* One invocation awaits its send while two others wait for the lock.
C14_Witness ==
    \E p, q, r \in Tasks :
        /\ pc[p] = "sending"
        /\ pc[q] = "waiting"
        /\ pc[r] = "waiting"
        /\ q # r

-----------------------------------------------------------------------------
(* The tracker's identity fields (specification SpecIdentity): up to       *)
(* MaxUpdates calls of update_from_params, with any of IdentityParams      *)

MaxUpdates == 2

P2 == <<"p", "2">>
M2 == <<"m", "2">>

IdentityParams ==
    {NoneV} \cup Objects([project_id |-> {Absent, Str(P1), Str(P2)},
                          meeting_id |-> {Absent, Str(M1), Str(M2)},
                          meeting_title |-> {Absent, Str(A)},
                          title |-> {Absent, Str(Blank), Str(B)},
                          meeting_started_at |-> {Absent, IntV(7), Str(A), Str(B)}])

\* tracker.update_from_params(params)
UpdateFromParams(params) ==
    /\ ncalls < MaxUpdates
    /\ ncalls' = ncalls + 1
    /\ tracker' = update_from_params(tracker, params)
    /\ call' = [IdleCall EXCEPT !.name = "update_from_params", !.params = params,
                                 !.stage = "returned"]
    /\ UNCHANGED <<pc, frame, lock, waiters, phase, posted, closes>>

InitIdentity == InitTracker

NextIdentity == \E params \in IdentityParams : UpdateFromParams(params)

SpecIdentity == InitIdentity /\ [][NextIdentity]_vars

IdentityFields == {"project_id", "meeting_id", "meeting_title", "meeting_started_at"}

\* C15: once an identity field of the tracker (project_id, meeting_id,
\* meeting_title, meeting_started_at) holds a non-empty value, no later
\* update_from_params call, with any parameters, changes it.
C15_IdentityFirstWriterWins ==
    [][\A f \in IdentityFields :
           ~IsNone(tracker[f]) => tracker'[f] = tracker[f]]_vars

\* The tracker holds p1, m1 and title A, and the latest call brought p2, m2
\* and title B.
C15_Witness ==
    /\ call.name = "update_from_params"
    /\ ncalls >= 2
    /\ tracker.project_id = Str(P1)
    /\ tracker.meeting_id = Str(M1)
    /\ tracker.meeting_title = Str(A)
    /\ "dict" \in DOMAIN call.params
    /\ {"project_id", "meeting_id", "title"} \subseteq DOMAIN call.params.dict
    /\ call.params.dict["project_id"] = Str(P2)
    /\ call.params.dict["meeting_id"] = Str(M2)
    /\ call.params.dict["title"] = Str(B)

-----------------------------------------------------------------------------
(* record_tool_result alone (specification SpecRecord): up to MaxRecorded  *)
(* calls, for any tool name, with any of the results below                 *)

MaxRecorded == 2

RecordedNames == ToolNames \cup {"unknown_tool"}

RecordedParams ==
    {NoneV, Dict([k \in {"note"} |-> Str(A)]), Dict([k \in {"title"} |-> Str(B)])}

\* Results: no "error" key; an error message; an empty, a blank, a
\* non-string and a null "error"; results that are no mapping
RecordedResults ==
    {OkBody, ErrorBody, ErrorResult(Msg("PCC request timed out.")),
     ErrorResult(Str(<<>>)), ErrorResult(Str(Blank)), ErrorResult(IntV(7)),
     ErrorResult(NoneV), NoneV, Str(A)}

\* tracker.record_tool_result(name, params, result)
RecordToolResult(name, params, result) ==
    /\ ncalls < MaxRecorded
    /\ ncalls' = ncalls + 1
    /\ tracker' = record_tool_result(tracker, name, params, result)
    /\ call' = [IdleCall EXCEPT !.name = name, !.params = params,
                                 !.stage = "returned", !.result = result]
    /\ UNCHANGED <<pc, frame, lock, waiters, phase, posted, closes>>

InitRecord == InitTracker

NextRecord ==
    \E name \in RecordedNames, params \in RecordedParams, result \in RecordedResults :
        RecordToolResult(name, params, result)

SpecRecord == InitRecord /\ [][NextRecord]_vars

\* A mapping whose "error" key is absent, or holds an empty or blank string
\* or a value that is no string
MappingWithoutError(res) == "dict" \in DOMAIN res /\ ~ErrorShaped(res)

\* C16: record_tool_result called with an error-shaped result (a mapping
\* whose "error" is a non-blank string) leaves the note list, the
\* action-item list and the sent flag unchanged, for every tool name; a
\* mapping whose "error" is absent, empty or not a string is not treated as
\* an error: the note, the action item or the sent flag is recorded.
C16_ErrorResultChangesNothing ==
    [][/\ ErrorShaped(call'.result)
           => /\ tracker'.notes = tracker.notes
              /\ tracker'.action_items = tracker.action_items
              /\ tracker'.summary_sent = tracker.summary_sent
       /\ MappingWithoutError(call'.result)
           => /\ (call'.name = "send_meeting_summary") => tracker'.summary_sent
              /\ (call'.name = "save_meeting_notes" /\ call'.params = Dict([k \in {"note"} |-> Str(A)]))
                     => tracker'.notes = Append(tracker.notes, Str(A))
              /\ (call'.name = "create_action_item" /\ call'.params = Dict([k \in {"title"} |-> Str(B)]))
                     => tracker'.action_items = Append(tracker.action_items, Str(B))]_vars

\* A note was recorded, and a second save_meeting_notes call with an error
\* result left the list as it was.
C16_Witness ==
    /\ ncalls = 2
    /\ call.name = "save_meeting_notes"
    /\ call.params = Dict([k \in {"note"} |-> Str(A)])
    /\ call.result = ErrorBody
    /\ tracker.notes = <<Str(A)>>

-----------------------------------------------------------------------------
(* Claims about the instrumented callbacks (specification SpecTools) *)

\* The tracker SpecTools starts from: nothing configured, nothing learnt
UntouchedTracker ==
    NewTracker([project_id |-> NoneV, meeting_id |-> NoneV,
                meeting_title |-> NoneV, meeting_started_at |-> NoneV])

\* C17 (as claimed): a tool invocation through the instrumented callback
\* whose result is error-shaped leaves the whole tracker state, identity
\* fields included, as it was before the invocation.  Stated for the first
\* invocation of the session, before which the tracker is UntouchedTracker.
C17_FailedCallTeachesNothing ==
    (ncalls = 1 /\ call.stage = "returned" /\ ErrorShaped(call.result))
        => tracker = UntouchedTracker

\* The answer is a failure of the request: a timeout, a connection failure,
\* a non-2xx status or a body that is no JSON
FailedAnswer(o) ==
    \/ o.kind \in {"timeout", "request_error"}
    \/ o.kind = "response" /\ (o.status < 200 \/ o.status >= 300 \/ o.body = InvalidJson)

\* The answer to GET /repos lists no project that matches the query
NotFoundAnswer(c, o) ==
    /\ c.name = "get_project_status"
    /\ o.kind = "response"
    /\ "list" \in DOMAIN o.body
    /\ IsNone(_select_project_summary(
                  o.body.list, _coerce_str(_get_param(c.params, <<"project_id", "project">>))))

\* Client calls that the client's own validation rejects
RejectedClientCalls ==
    {get_project_status(Str(Blank)), get_shift_context(NoneV),
     send_communication(CommArgs(Str(Blank), Msg("status"), Str(S1), NoneV, NoneV)),
     send_communication(CommArgs(Str(P1), Msg("status"), Str(Blank), NoneV, NoneV)),
     create_work_order(Str(Blank), EmptyDict, NoneV),
     patch_work_order(Str(P1), Str(Blank), EmptyDict)}

\* C11: no tool callback ever raises to its caller: whichever of the four
\* kinds of failure (the client's validation, a timeout or connection
\* failure, a non-2xx or unparsable response, a lookup that finds nothing)
\* occurs at a client call inside a callback, the callback returns
\* {"error": <message>}.
C11_CallbacksNeverRaise ==
    /\ call.stage # "raised"
    /\ (/\ call.stage = "returned"
        /\ call.responses # <<>>
        /\ \/ FailedAnswer(call.responses[Len(call.responses)])
           \/ NotFoundAnswer(call, call.responses[Len(call.responses)]))
           => ErrorShaped(call.result)
    /\ \A r \in RejectedClientCalls :
           /\ IsRaise(r)
           /\ IsRet(ClientCall(r))
           /\ ErrorShaped(ClientCall(r).ret)

\* create_action_item created the work order, the patch request timed out,
\* and the callback returned an error result.
C11_Witness ==
    /\ call.name = "create_action_item"
    /\ call.stage = "returned"
    /\ Len(call.responses) = 2
    /\ call.responses[2] = Timeout
    /\ ErrorShaped(call.result)

-----------------------------------------------------------------------------
(* The client operations called directly (specification SpecClient): up to *)
(* MaxClientCalls calls, one at a time, and any answer to each request.    *)
(* call holds the operation, its arguments, what it returned or raised,    *)
(* the requests it issued and the answers it got                           *)

MaxClientCalls == 1
MaxProjects == 2

E1 == <<"e", "@", "x">>
QueryA == <<"a">>

\* Identifiers: None, empty, blank, and usable ones
Identifiers == {NoneV, Str(<<>>), Str(Blank), Str(<<" ", "\t">>), Str(P1)}

\* Queries of get_project_status: a, A with a trailing blank, b, and z
Queries == {Str(QueryA), Str(<<"A", " ">>), Str(<<"b">>), Str(<<"z">>)}

ClientArgs(name) ==
    CASE name = "get_global_context" -> {NoneV}
      [] name = "get_project_status" ->
            {[project_id |-> q] : q \in Identifiers \cup Queries}
      [] name = "get_shift_context" -> {[project_id |-> i] : i \in Identifiers}
      [] name = "resolve_people_by_emails" ->
            {[emails |-> e, project_id |-> i] :
                e \in {<<>>, <<Str(Blank), IntV(7)>>, <<Str(E1)>>, <<Str(Blank), Str(E1)>>},
                i \in {NoneV, Str(P1)}}
      [] name = "send_communication" ->
            {CommArgs(i, Msg("status"), sm, NoneV, NoneV) :
                i \in Identifiers, sm \in {Str(S1), Str(Blank)}}
      [] name = "create_work_order" ->
            {[project_id |-> i, data |-> EmptyDict] : i \in Identifiers}
      [] name = "patch_work_order" ->
            {[project_id |-> i, work_order_id |-> w, data |-> EmptyDict] :
                i \in Identifiers, w \in {NoneV, Str(Blank), Str(W1)}}

ClientOperations ==
    {"get_global_context", "get_project_status", "get_shift_context",
     "resolve_people_by_emails", "send_communication", "create_work_order",
     "patch_work_order"}

\* Entries of the /repos listing
ProjectPool ==
    {Project(<<"a", "b">>, <<"x">>), Project(<<"A">>, <<"y">>),
     Project(<<"x">>, <<" ", "a">>), Project(<<"x">>, <<"b", "A">>),
     Project(<<"y">>, <<"y">>), IntV(7), Dict([k \in {"id"} |-> IntV(7)])}

Listings == UNION {[1..n -> ProjectPool] : n \in 0..MaxProjects}

\* Answers of the control center to a request of the client
ClientOutcomes(stage) ==
    IF stage = "get_project_status"
    THEN {Timeout, Response(200, OkBody), Response(404, ErrorBody)}
         \cup {Response(200, ListV(l)) : l \in Listings}
    ELSE IF stage \in {"idle", "returned", "raised"} THEN {}
    ELSE {Timeout, RequestError,
          Response(199, OkBody), Response(200, OkBody), Response(299, ListV(<<>>)),
          Response(300, OkBody), Response(404, ErrorBody),
          Response(404, ErrorResult(Str(Blank))), Response(500, InvalidJson),
          Response(204, InvalidJson)}

\* await pcc.<name>(args), up to the request or to the end of the call
ClientInvoke(name, args) ==
    /\ CallFree
    /\ ncalls < MaxClientCalls
    /\ ncalls' = ncalls + 1
    /\ LET r == ClientStart(name, args)
           new == [IdleCall EXCEPT !.name = name, !.params = args]
       IN  call' = IF IsAwait(r)
                   THEN [new EXCEPT !.stage = r.stage, !.locals = r.locals,
                                    !.requests = <<r.await>>]
                   ELSE IF IsRet(r)
                   THEN [new EXCEPT !.stage = "returned", !.result = r.ret]
                   ELSE [new EXCEPT !.stage = "raised", !.result = r.raise]
    /\ UNCHANGED <<tracker, pc, frame, lock, waiters, phase, posted, closes>>

\* The request is answered: the rest of the operation
ClientResponse(outcome) ==
    /\ ~CallFree
    /\ LET r == ClientResume(call.stage, call.locals, outcome)
           got == [call EXCEPT !.responses = Append(@, outcome), !.locals = NoneV]
       IN  call' = IF IsAwait(r)
                   THEN [got EXCEPT !.stage = r.stage, !.locals = r.locals,
                                    !.requests = Append(@, r.await)]
                   ELSE IF IsRet(r)
                   THEN [got EXCEPT !.stage = "returned", !.result = r.ret]
                   ELSE [got EXCEPT !.stage = "raised", !.result = r.raise]
    /\ UNCHANGED <<tracker, pc, frame, lock, waiters, phase, ncalls, posted, closes>>

InitClient == InitTools

NextClient ==
    \/ \E name \in ClientOperations : \E args \in ClientArgs(name) : ClientInvoke(name, args)
    \/ \E outcome \in ClientOutcomes(call.stage) : ClientResponse(outcome)

SpecClient == InitClient /\ [][NextClient]_vars

-----------------------------------------------------------------------------
(* Claims about the client operations (specification SpecClient) *)

\* A value as the lookup compares it: trimmed and in lower case; a value that
\* is no string compares as the empty string
Folded(v) ==
    IF "str" \in DOMAIN v
    THEN [i \in 1..Len(strip(v.str)) |-> ToLower(strip(v.str)[i])]
    ELSE <<>>

FoldedField(project, key) ==
    IF key \in DOMAIN project.dict THEN Folded(project.dict[key]) ELSE <<>>

\* Positions of the listing whose id or name equals, or contains, the query
ExactAt(listing, query) ==
    {i \in 1..Len(listing) :
        /\ "dict" \in DOMAIN listing[i]
        /\ \/ FoldedField(listing[i], "id") = Folded(query)
           \/ FoldedField(listing[i], "name") = Folded(query)}

ContainingAt(listing, query) ==
    {i \in 1..Len(listing) :
        /\ "dict" \in DOMAIN listing[i]
        /\ \/ Contains(FoldedField(listing[i], "id"), Folded(query))
           \/ Contains(FoldedField(listing[i], "name"), Folded(query))}

Least(S) == CHOOSE i \in S : \A j \in S : i <= j

\* get_project_status got a 2xx answer that is a list
Listed ==
    /\ call.name = "get_project_status"
    /\ call.responses # <<>>
    /\ call.responses[1].kind = "response"
    /\ call.responses[1].status >= 200 /\ call.responses[1].status < 300
    /\ "list" \in DOMAIN call.responses[1].body

\* C12: get_project_status(query) returns the first project of the listing
\* whose id or name equals the query, case and surrounding whitespace aside,
\* if any project of the whole list does; only when none does, the first
\* project whose id or name contains the query; and when neither exists it
\* fails with the client's error carrying status 404.
C12_ExactMatchBeforeSubstring ==
    Listed =>
        LET listing == call.responses[1].body.list
            query == call.params.project_id
        IN  IF ExactAt(listing, query) # {}
            THEN /\ call.stage = "returned"
                 /\ call.result = listing[Least(ExactAt(listing, query))]
            ELSE IF ContainingAt(listing, query) # {}
            THEN /\ call.stage = "returned"
                 /\ call.result = listing[Least(ContainingAt(listing, query))]
            ELSE /\ call.stage = "raised"
                 /\ call.result.exc = "PccClientError"
                 /\ call.result.status_code = IntV(404)

\* The listing holds a project that contains the query before one that
\* equals it in another case, and the second one was returned.
C12_Witness ==
    /\ Listed
    /\ call.params.project_id = Str(QueryA)
    /\ ExactAt(call.responses[1].body.list, call.params.project_id) = {2}
    /\ 1 \in ContainingAt(call.responses[1].body.list, call.params.project_id)
    /\ call.stage = "returned"
    /\ call.result = Project(<<"A">>, <<"y">>)

\* The call of a client operation is over
ClientCallOver == call.name \in ClientOperations /\ call.stage \in {"returned", "raised"}

\* The call was rejected by the operation's validation of its arguments
RejectedByValidation ==
    /\ call.stage = "raised"
    /\ call.result.exc = "PccClientError"
    /\ call.responses = <<>>

\* resolve_people_by_emails was called without any non-blank email
NoUsableEmail ==
    /\ call.name = "resolve_people_by_emails"
    /\ \A i \in 1..Len(call.params.emails) : ~NonBlankString(call.params.emails[i])

\* C18 (as claimed): every client operation call issues exactly one HTTP
\* request: never more than one, and never zero for a call that is not
\* rejected by input validation.
C18_ExactlyOneRequest ==
    /\ Len(call.requests) <= 1
    /\ (ClientCallOver /\ ~RejectedByValidation) => Len(call.requests) = 1

\* C18 (amended): a client operation call never issues more than one HTTP
\* request, and issues exactly one unless input validation rejects it or it
\* is resolve_people_by_emails called without any non-blank email, which
\* returns {"participants": []} without a request.
C18_OneRequestUnlessNoEmails ==
    /\ Len(call.requests) <= 1
    /\ (ClientCallOver /\ ~RejectedByValidation /\ ~NoUsableEmail)
           => Len(call.requests) = 1
    /\ (ClientCallOver /\ NoUsableEmail)
           => /\ call.stage = "returned"
              /\ call.result = NoParticipants
              /\ call.requests = <<>>

\* A request timed out and the operation failed without a second request.
C18_Witness ==
    /\ ClientCallOver
    /\ call.responses = <<Timeout>>
    /\ call.stage = "raised"
    /\ Len(call.requests) = 1

\* The identifier is None, empty, or blank once trimmed
BlankIdentifier(v) ==
    "str" \notin DOMAIN v \/ \A i \in 1..Len(v.str) : v.str[i] \in Whitespace

\* The call was given a blank required identifier
BlankRequiredIdentifier ==
    \/ /\ call.name \in {"get_project_status", "get_shift_context", "send_communication",
                         "create_work_order", "patch_work_order"}
       /\ BlankIdentifier(call.params.project_id)
    \/ /\ call.name = "patch_work_order"
       /\ BlankIdentifier(call.params.work_order_id)

\* C19: every client operation called with a required identifier
\* (project_id, work_order_id) that is empty, or blank after trimming, fails
\* with the client's typed error and issues no HTTP request.
C19_BlankIdentifierRejected ==
    (call.name \in ClientOperations /\ BlankRequiredIdentifier)
        => /\ call.stage = "raised"
           /\ call.result.exc = "PccClientError"
           /\ call.requests = <<>>

\* patch_work_order was called with a project id and a blank work order id,
\* and raised.
C19_Witness ==
    /\ call.name = "patch_work_order"
    /\ call.params.project_id = Str(P1)
    /\ call.params.work_order_id = Str(Blank)
    /\ call.stage = "raised"
    /\ call.requests = <<>>

\* The answers with a status outside 2xx, and those with a body that is no JSON
Non2xx(o) == o.kind = "response" /\ (o.status < 200 \/ o.status >= 300)
NotJson(o) == o.kind = "response" /\ o.body = InvalidJson

\* C20: a client request whose response has a non-2xx status, or a body that
\* is not valid JSON, never returns a value to the caller: the operation
\* fails with the client's typed error, which carries the HTTP status code
\* in the non-2xx case.
C20_BadResponseRaises ==
    \A i \in 1..Len(call.responses) :
        (call.name \in ClientOperations
         /\ (Non2xx(call.responses[i]) \/ NotJson(call.responses[i])))
            => /\ call.stage = "raised"
               /\ call.result.exc = "PccClientError"
               /\ Non2xx(call.responses[i])
                      => call.result.status_code = IntV(call.responses[i].status)

\* get_shift_context got a 204 answer without a JSON body, and raised.
C20_Witness ==
    /\ call.name = "get_shift_context"
    /\ call.responses = <<Response(204, InvalidJson)>>
    /\ call.stage = "raised"
    /\ call.result.exc = "PccClientError"

-----------------------------------------------------------------------------
(* Claims about addressing (SpecTools) *)

ScopedTools ==
    {"send_communication", "save_meeting_notes", "create_action_item",
     "send_meeting_summary"}

\* The parameters carry a to_scope that is a non-blank string and, trimmed,
\* none of project, global and user
ScopeOutsideEnum(params) ==
    /\ "dict" \in DOMAIN params
    /\ "to_scope" \in DOMAIN params.dict
    /\ NonBlankString(params.dict["to_scope"])
    /\ \A w \in {"project", "global", "user"} :
           strip(params.dict["to_scope"].str) # Word(w)

\* C21: for each of send_communication, save_meeting_notes,
\* create_action_item and send_meeting_summary, a call whose parameters carry
\* an explicit to_scope outside {project, global, user} returns an error
\* result and no communication request is issued.
C21_InvalidScopeIsErrorWithoutRequest ==
    (call.name \in ScopedTools /\ call.stage # "idle" /\ ScopeOutsideEnum(call.params))
        => /\ call.stage = "returned"
           /\ ErrorShaped(call.result)
           /\ call.requests = <<>>

\* The communication requests a call has issued
CommunicationRequests ==
    {i \in 1..Len(call.requests) :
        /\ call.requests[i].endpoint = "communications"
        /\ IsMapping(call.requests[i].json)}

\* C22: every communication request a tool issues with to_scope = project
\* carries a to_project_id: the to_project_id of the parameters when they
\* give one, otherwise the project the request acts for.
C22_ProjectScopeCarriesTarget ==
    \A i \in CommunicationRequests :
        LET data == call.requests[i].json.dict
            explicit == _coerce_str(_get_param(call.params, <<"to_project_id">>))
        IN  ("to_scope" \in DOMAIN data /\ InWords(data["to_scope"], {"project"}))
                => /\ "to_project_id" \in DOMAIN data
                   /\ data["to_project_id"] =
                          IF Truthy(explicit) THEN explicit
                          ELSE call.requests[i].project_id

\* create_action_item called for a communication, with its required fields
\* and no scope outside the enum
CommunicationActionCall ==
    /\ call.name = "create_action_item"
    /\ call.stage # "idle"
    /\ ~SomeFieldMissing(call)
    /\ InWords(_coerce_str(_get_param(call.params, <<"action_type", "type", "mode">>)),
               {"communication"})
    /\ ~ScopeOutsideEnum(call.params)

\* The intent the call asks for: the trimmed intent parameter, request when
\* it is absent or blank
AskedIntent == OrElse(_coerce_str(_get_param(call.params, <<"intent">>)), Msg("request"))

\* The call has issued one communication request, with the intent asked for
SentWithAskedIntent ==
    /\ Len(call.requests) = 1
    /\ CommunicationRequests = {1}
    /\ \A w \in {"escalation", "request", "message", "suggestion", "status"} :
           InWords(call.requests[1].json.dict["intent"], {w}) <=> InWords(AskedIntent, {w})

RejectedWithoutRequest ==
    /\ call.stage = "returned"
    /\ ErrorShaped(call.result)
    /\ call.requests = <<>>

\* C23 as stated: create_action_item with action_type communication sends
\* the communication for every intent of {escalation, request, message,
\* suggestion, status} (request when absent) and returns an error result
\* without a request for any other intent.
C23_SendsForFiveIntents ==
    CommunicationActionCall
        => IF InWords(AskedIntent,
                      {"escalation", "request", "message", "suggestion", "status"})
           THEN SentWithAskedIntent
           ELSE RejectedWithoutRequest

\* C23, amended: create_action_item with action_type communication sends
\* the communication for every intent of {request, message, suggestion,
\* status} (request when absent) and returns an error result without a
\* request for any other intent, escalation included.
C23_SendsForFourIntents ==
    CommunicationActionCall
        => IF InWords(AskedIntent, {"request", "message", "suggestion", "status"})
           THEN SentWithAskedIntent
           ELSE RejectedWithoutRequest

\* create_action_item was asked for a communication with intent status, its
\* request was answered and it returned the wrapped answer.
C23_Witness ==
    /\ CommunicationActionCall
    /\ call.stage = "returned"
    /\ InWords(AskedIntent, {"status"})
    /\ Len(call.responses) = 1
    /\ ~ErrorShaped(call.result)

-----------------------------------------------------------------------------
(* Claims about what create_action_item teaches the tracker (SpecTools) *)

CarriesMeetingTitle(params) ==
    /\ "dict" \in DOMAIN params
    /\ {"meeting_title", "meeting_name"} \cap DOMAIN params.dict # {}

\* C28: a create_action_item call through the instrumented callback whose
\* parameters carry neither meeting_title nor meeting_name leaves the
\* tracker's meeting_title as it was, at the call and at each answer: the
\* title of the action item does not become the title of the meeting.
C28_ActionTitleIsNotMeetingTitle ==
    [][(call'.name = "create_action_item" /\ ~CarriesMeetingTitle(call'.params))
           => tracker'.meeting_title = tracker.meeting_title]_vars

\* create_action_item asked for a work order: the request that creates it
\* was answered with a work order id and the request that patches it failed
PatchFailedAfterCreate(c) ==
    /\ c.name = "create_action_item"
    /\ Len(c.responses) = 2
    /\ c.requests[2].method = "PATCH"
    /\ ~FailedAnswer(c.responses[1])
    /\ FailedAnswer(c.responses[2])

\* create_action_item has returned after every request it issued (the two of
\* a work order, or the one of a communication) was answered with a 2xx
\* JSON response
ActionItemDone(c) ==
    /\ c.name = "create_action_item"
    /\ c.stage = "returned"
    /\ Len(c.responses) = Len(c.requests)
    /\ \A i \in 1..Len(c.responses) : ~FailedAnswer(c.responses[i])
    /\ \/ Len(c.requests) = 1 /\ c.requests[1].endpoint = "communications"
       \/ Len(c.requests) = 2 /\ c.requests[2].method = "PATCH"

\* C30: when create_action_item's create request succeeds and its patch
\* request fails, the callback returns an error result; and the tracker's
\* list of action items changes only by one title, at the return of a
\* create_action_item call whose create and patch requests both succeeded or
\* whose communication was sent.
C30_ActionItemOnlyAfterCreateAndPatch ==
    /\ [](PatchFailedAfterCreate(call)
              => call.stage = "returned" /\ ErrorShaped(call.result))
    /\ [][/\ PatchFailedAfterCreate(call') => tracker'.action_items = tracker.action_items
          /\ tracker'.action_items # tracker.action_items
                 => /\ ActionItemDone(call')
                    /\ call.stage \notin {"idle", "returned", "raised"}
                    /\ Len(tracker'.action_items) = Len(tracker.action_items) + 1]_vars

\* The work order was created, the patch was answered 404, the callback
\* returned an error result and the tracker holds no action item.
C30_Witness ==
    /\ PatchFailedAfterCreate(call)
    /\ call.stage = "returned"
    /\ ErrorShaped(call.result)
    /\ tracker.action_items = <<>>

-----------------------------------------------------------------------------
(* Claims about sending and the sent flag (specification Spec) *)

\* Task p runs the body of send_if_needed in this step, or is cancelled
\* before it does
EntersBody(p) ==
    /\ pc[p] \in {"unborn", "scheduled", "locked"}
    /\ pc'[p] \notin {pc[p], "scheduled", "waiting"}

\* What the tracker has collected: identity, notes, action items, sent flag
Collected(tr) ==
    <<tr.project_id, tr.meeting_id, tr.meeting_title, tr.meeting_started_at,
      tr.notes, tr.action_items, tr.summary_sent>>

\* C25: a send_if_needed call that finds the tracker in Sent, or finds
\* project_id or meeting_id missing, returns without invoking the sending
\* callback (no parameters are handed over, nothing is awaited, nothing is
\* posted) and leaves the tracker's notes, action items, identity and sent
\* flag as they were.
C25_NoSendWhenSentOrUnaddressed ==
    [][\A p \in Tasks :
          (EntersBody(p) /\ (tracker.summary_sent \/ ~IdentityComplete(tracker)))
              => /\ pc'[p] \in {IF tracker.summary_sent THEN "returned_sent"
                                ELSE "returned_blocked", "raised"}
                 /\ frame' = frame
                 /\ posted' = posted
                 /\ Collected(tracker') = Collected(tracker)]_vars

\* One call found the identity incomplete and returned; the identity was
\* then learnt and the summary sent; a later call found the tracker in Sent.
C25_Witness ==
    \E p, q \in Tasks : pc[p] = "returned_blocked" /\ pc[q] = "returned_sent"

\* C26: the tracker's sent flag is true only if a send_meeting_summary
\* invocation has returned a non-error result (the flag is raised in the
\* step of that return), and once true it stays true.
C26_SentOnlyAfterDeliveryAndTerminal ==
    /\ [](tracker.summary_sent => posted >= 1)
    /\ [][/\ tracker.summary_sent => tracker'.summary_sent
          /\ (~tracker.summary_sent /\ tracker'.summary_sent) => posted' = posted + 1]_vars

\* The summary was sent, and a later send_meeting_summary call of the
\* language model failed: the tracker is still in Sent.
C26_Witness ==
    /\ tracker.summary_sent
    /\ posted = 1
    /\ ncalls = MaxCalls
    /\ call.stage = "returned"
    /\ ErrorShaped(call.result)

-----------------------------------------------------------------------------
(* Claims about the end of the session (specification Spec) *)

\* The send_if_needed calls scheduled by a disconnect that are not over
PendingDisconnectSends ==
    {p \in Tasks \ {0} : pc[p] \in {"scheduled", "waiting", "locked", "sending"}}

\* C27: when main closes the client, every summary send scheduled by a
\* disconnect has completed or been skipped, whatever the interleaving with
\* the send_if_needed of the pipeline's end; and once the client is closed
\* no send_if_needed call hands parameters to the sending callback.
C27_NoSendAfterClose ==
    /\ [][(phase # "closed" /\ phase' = "closed") => PendingDisconnectSends = {}]_vars
    /\ [][phase = "closed" => frame' = frame]_vars

-----------------------------------------------------------------------------
(* The prompt summaries (specification SpecSummaries): summarize_global_    *)
(* context and summarize_participants applied to any value the control     *)
(* center's JSON can decode to                                              *)

MaxEntries == 2

AttributeError ==
    [exc |-> "AttributeError", message |-> Msg("'<type>' object has no attribute 'get'"),
     status_code |-> NoneV]

IsList(v) == "list" \in DOMAIN v

\* The number of entries of the list that satisfy Test
CountOf(entries, Test(_)) == Cardinality({i \in 1..Len(entries) : Test(entries[i])})

\* summarize_global_context.  Of the rendered text the model keeps the
\* number of projects and the tallies by health and by status; the sentences
\* after them (work orders, escalations, budget, session, samples) are built
\* from the same list once it is known to be one.
summarize_global_context(context) ==
    LET projects_value == IF IsMapping(context) THEN DictGet(context, "projects") ELSE NoneV
    IN  IF ~IsList(projects_value) THEN Ret(Msg("Global context is unavailable."))
        ELSE IF Len(projects_value.list) = 0
        THEN Ret(Msg("No projects found in the portfolio."))
        ELSE LET Tally(field, value) ==
                     CountOf(projects_value.list,
                             LAMBDA project : /\ IsMapping(project)
                                              /\ DictGet(project, field) = Msg(value))
             IN  Ret([portfolio |-> Len(projects_value.list),
                      health_counts |->
                          [h \in {"healthy", "attention_needed", "stalled", "failing",
                                  "blocked"} |-> Tally("health", h)],
                      status_counts |->
                          [s \in {"active", "blocked", "parked"} |-> Tally("status", s)]])

\* The line summarize_participants renders for one entry (company and
\* relationship are read and rendered like role: left out)
ParticipantLine(entry) ==
    LET email == _coerce_str(DictGet(entry, "email"))
        person == DictGet(entry, "person")
    IN  IF ~IsMapping(person) THEN [email |-> email, name |-> Msg("unknown"), role |-> NoneV]
        ELSE [email |-> email,
              name |-> OrElse(_coerce_str(DictGet(person, "name")), Msg("Unknown")),
              role |-> _coerce_str(DictGet(person, "role"))]

\* summarize_participants: payload.get is called on whatever is passed
summarize_participants(payload) ==
    IF ~IsMapping(payload) THEN Raise(AttributeError)
    ELSE LET participants_value == DictGet(payload, "participants")
             rendered(entry) ==
                 /\ IsMapping(entry)
                 /\ IsMapping(DictGet(entry, "person")) \/ Truthy(_coerce_str(DictGet(entry, "email")))
         IN  IF ~IsList(participants_value) THEN Ret(Str(<<>>))
             ELSE LET entries == SelectSeq(participants_value.list, rendered)
                  IN  IF entries = <<>> THEN Ret(Str(<<>>))
                      ELSE Ret(Lines(<<Msg("Participants:")>> \o
                                     [i \in 1..Len(entries) |-> ParticipantLine(entries[i])]))

\* The lists of at most n entries
ListsUpTo(S, n) == {ListV(l) : l \in UNION {[1..k -> S] : k \in 0..n}}

ProjectEntries ==
    {IntV(7),
     Dict([k \in {"health"} |-> Msg("healthy")]),
     Dict([k \in {"health", "status"} |->
              IF k = "health" THEN Msg("unheard") ELSE Msg("active")]),
     EmptyDict}

ParticipantEntries ==
    {IntV(7),
     Dict([k \in {"email"} |-> Str(E1)]),
     Dict([k \in {"person"} |-> Dict([j \in {"name"} |-> Str(A)])]),
     Dict([k \in {"email", "person"} |->
              IF k = "email" THEN Str(E1)
              ELSE Dict([j \in {"name", "role"} |-> IF j = "name" THEN Str(Blank) ELSE Str(B)])])}

\* Top-level shapes: no mapping; a mapping without the entry; a mapping
\* whose entry is no list; a mapping whose entry is a list
SummaryInputs(key, entries) ==
    {NoneV, IntV(7), Str(A), ListV(<<>>), EmptyDict}
    \cup {Dict([k \in {key} |-> v]) :
             v \in {NoneV, IntV(7), Str(A), EmptyDict} \cup ListsUpTo(entries, MaxEntries)}

SummaryFunctions == {"summarize_global_context", "summarize_participants"}

InputsOf(fn) ==
    IF fn = "summarize_global_context" THEN SummaryInputs("projects", ProjectEntries)
    ELSE SummaryInputs("participants", ParticipantEntries)

\* build_system_prompt hands a decoded answer to one of the two functions
Summarize ==
    /\ call.name \in SummaryFunctions
    /\ call.stage = "idle"
    /\ LET r == IF call.name = "summarize_global_context"
                THEN summarize_global_context(call.params)
                ELSE summarize_participants(call.params)
       IN  call' = IF IsRet(r) THEN [call EXCEPT !.stage = "returned", !.result = r.ret]
                   ELSE [call EXCEPT !.stage = "raised"]
    /\ UNCHANGED <<tracker, pc, frame, lock, waiters, phase, ncalls, posted, closes>>

InitSummaries ==
    /\ tracker = NewTracker([project_id |-> NoneV, meeting_id |-> NoneV,
                             meeting_title |-> NoneV, meeting_started_at |-> NoneV])
    /\ pc = [p \in Tasks |-> "unborn"]
    /\ frame = [p \in Tasks |-> NewFrame]
    /\ lock = NoTask
    /\ waiters = <<>>
    /\ phase = "created"
    /\ call \in {[IdleCall EXCEPT !.name = fn, !.params = x] :
                    fn \in SummaryFunctions, x \in UNION {InputsOf(g) : g \in SummaryFunctions}}
    /\ ncalls = 0
    /\ posted = 0
    /\ closes = 0

NextSummaries == Summarize

SpecSummaries == InitSummaries /\ [][NextSummaries]_vars

\* The input is no mapping, or a mapping whose `key` entry is no list
UnexpectedShape(value, key) ==
    \/ "dict" \notin DOMAIN value
    \/ key \notin DOMAIN value.dict
    \/ "list" \notin DOMAIN value.dict[key]

\* C24: summarize_global_context and summarize_participants are total: on
\* every input both return, and on an input that is no mapping or whose
\* projects (participants) entry is no list they return "Global context is
\* unavailable." and the empty string.
C24_SummariesAreTotal ==
    call.name \in SummaryFunctions
        => /\ call.stage \in {"idle", "returned"}
           /\ (call.stage = "returned" /\ call.name = "summarize_global_context"
                  /\ UnexpectedShape(call.params, "projects"))
                 => call.result = Msg("Global context is unavailable.")
           /\ (call.stage = "returned" /\ call.name = "summarize_participants"
                  /\ UnexpectedShape(call.params, "participants"))
                 => call.result = Str(<<>>)

-----------------------------------------------------------------------------
(* Termination of send_if_needed (specification SpecLive): the calls of    *)
(* the dispatcher alone (the language model's own tool calls take no       *)
(* lock), where the event loop runs every task that is ready, every        *)
(* request that is awaited is answered while the client is open, and       *)
(* asyncio.run cancels the tasks that are left when main is over           *)

NextLive ==
    \/ \E p \in Tasks : Disconnect(p)
    \/ \E p \in Tasks : TaskStart(p)
    \/ \E p \in Tasks : TaskResume(p)
    \/ \E p \in Tasks, outcome \in SendOutcomes : SendResponse(p, outcome)
    \/ PipelineEnd
    \/ CancelMain
    \/ MainClose
    \/ \E p \in Tasks : Cancel(p)

\* Task p can take a step of its own: the event loop can start it or resume
\* it with the lock, or the request it awaits can be answered (or, once main
\* is over, the task can be cancelled)
Ready(p) == pc[p] = "scheduled" \/ (pc[p] = "locked" /\ lock = p) \/ pc[p] = "sending"

Positions == {"unborn", "scheduled", "waiting", "locked", "sending", "raised"} \cup Returned

\* A ready task takes its step: TaskStart, TaskResume, SendResponse, Cancel
\* and CancelMain are the steps that move a ready task
Runs(p) ==
    /\ Ready(p)
    /\ pc' \in [Tasks -> Positions]
    /\ pc'[p] # pc[p]

\* The event loop runs every task that stays ready, and every awaited send
\* is answered or cancelled
Fairness == \A p \in Tasks : WF_pc(Runs(p))

SpecLive == Init /\ [][NextLive]_vars /\ Fairness

\* Task p is inside send_if_needed: waiting for the lock, woken with it, or
\* holding it while the sending callback is awaited
Inside(p) == pc[p] \in {"waiting", "locked", "sending"}

\* Task p has left send_if_needed, by a return or by an exception
Left(p) == pc[p] \in Returned \cup {"raised"}

\* C29: every send_if_needed call that has started leaves the call (returns,
\* or lets the exception or the cancellation of its send through), also
\* when the task that held the lock before it raised or was cancelled; and
\* when no call is inside send_if_needed the lock is free.
C29_SendIfNeededLeavesAndFreesLock ==
    /\ \A p \in Tasks : Inside(p) ~> Left(p)
    /\ []((\A p \in Tasks : ~Inside(p)) => lock = NoTask)

\* The pipeline-end call was cancelled while it awaited its send, holding
\* the lock; a call scheduled by a disconnect has sent and returned since,
\* and the lock is free.
C29_Witness ==
    /\ phase = "ending"
    /\ pc[0] = "raised"
    /\ ~IsNone(frame[0].params)
    /\ \E p \in Tasks \ {0} : pc[p] = "returned" /\ ~ErrorShaped(frame[p].result)
    /\ \A p \in Tasks : ~Inside(p)
    /\ lock = NoTask

=============================================================================
